---- MODULE Spec2Model ----
(***************************************************************************)
(* A model of the US-holiday calendar generator                            *)
(* (src/src/generate_calendar/__init__.py): the date-rule evaluators with  *)
(* their result cache, and the generate_calendar run that assembles,       *)
(* deduplicates, filters and emits the events.                             *)
(*                                                                         *)
(* Representation.  A datetime.date is a record [y, m, d].  A str holding  *)
(* a date is the sequence of its characters, so strftime and strptime are  *)
(* real conversions.  A dict is a function; a cache key f"nth_{y}_{m}_..." *)
(* is the tuple of its parts.  A raised ValueError is the value            *)
(* ValueError (no date has year 0).                                        *)
(***************************************************************************)
EXTENDS Integers, Sequences, FiniteSets, TLC

VARIABLES
    holidays_file,  \* the holiday-definition store (src/holidays.json)
    cache_file,     \* CACHE_FILE on disk: "absent", "corrupt" or a dict
    output_file,    \* OUTPUT_FILE on disk: "absent" or the written events
    pc,             \* position of the running command
    args,           \* [start_year, end_year, dry_run] of the running command
    cache,          \* the in-memory cache dict
    YEAR,           \* loop variable of generate_calendar
    holidays,       \* the assembled holiday list
    seen,           \* set of (name, date) keys already met
    cal,            \* the events added to the Calendar, in order
    log,            \* the log records written, in order
    exit_code,      \* exit status of the last command ("none" while running)
    runs,           \* number of commands started
    holiday_config, \* the definitions load_holidays returned to the command
    io,             \* the file operations of the running command, in order
    budget,         \* number of commands the operator issues
    call,           \* unit-level call under evaluation (evaluator harness)
    result,         \* the date it returned
    result_list,    \* the list it returned (get_federal_holidays)
    started,        \* the three stores as the running command found them
    previous        \* what the command before the running one was and gave

vars == <<holidays_file, cache_file, output_file, pc, args, cache, YEAR,
          holidays, seen, cal, log, exit_code, runs, holiday_config, io,
          budget, call, result, result_list, started, previous>>

-----------------------------------------------------------------------------
(* Bounds and program constants *)

MinYear == 1900
MaxYear == 2100
\* number of times the evaluator harness applies the same call to its cache
MaxCalls == 2
\* largest occurrence count the harness asks get_nth_weekday for
MaxNth == 5
\* most years one generate_calendar run covers
MaxSpan == 2
\* most entries of manual_holidays, and of calculated_holidays
MaxManual == 2
MaxCalculated == 1
\* most generate commands issued one after the other
MaxGenerates == 2
\* most add-holiday and remove-holiday commands issued one after the other
MaxEdits == 2
\* most commands of a session that edits the store and generates from it
MaxCommands == 2
\* most add-holiday and remove-holiday commands applied to a store of unique
\* names
MaxSequence == 3

-----------------------------------------------------------------------------
(* datetime.date, as the evaluators use it *)

ValueError == [y |-> 0, m |-> 0, d |-> 0]

is_leap(y) == y % 4 = 0 /\ (y % 100 # 0 \/ y % 400 = 0)

days_in_month(y, m) ==
    IF m = 2 THEN (IF is_leap(y) THEN 29 ELSE 28)
    ELSE IF m \in {4, 6, 9, 11} THEN 30 ELSE 31

days_before_month(y, m) ==
    <<0, 31, 59, 90, 120, 151, 181, 212, 243, 273, 304, 334>>[m]
    + (IF m > 2 /\ is_leap(y) THEN 1 ELSE 0)

days_before_year(year) ==
    LET y == year - 1 IN y * 365 + y \div 4 - y \div 100 + y \div 400

\* datetime(year, month, day).date(): the constructor validates its fields
datetime_date(y, m, d) ==
    IF m \in 1..12 /\ d >= 1 /\ d <= days_in_month(y, m)
    THEN [y |-> y, m |-> m, d |-> d]
    ELSE ValueError

toordinal(date) ==
    days_before_year(date.y) + days_before_month(date.y, date.m) + date.d

fromordinal(ord) ==
    LET n0   == ord - 1
        n400 == n0 \div 146097
        r400 == n0 % 146097
        n100 == r400 \div 36524
        r100 == r400 % 36524
        n4   == r100 \div 1461
        r4   == r100 % 1461
        n1   == r4 \div 365
        n    == r4 % 365
        year == n400 * 400 + 1 + n100 * 100 + n4 * 4 + n1
        leapyear == n1 = 3 /\ (n4 # 24 \/ n100 = 3)
        month0 == (n + 50) \div 32
        prec0  == <<0, 31, 59, 90, 120, 151, 181, 212, 243, 273, 304, 334>>[month0]
                  + (IF month0 > 2 /\ leapyear THEN 1 ELSE 0)
        month  == IF prec0 > n THEN month0 - 1 ELSE month0
        dim    == IF month = 2 THEN (IF leapyear THEN 29 ELSE 28)
                  ELSE IF month \in {4, 6, 9, 11} THEN 30 ELSE 31
        prec   == IF prec0 > n THEN prec0 - dim ELSE prec0
    IN  IF n1 = 4 \/ n100 = 4
        THEN [y |-> year - 1, m |-> 12, d |-> 31]
        ELSE [y |-> year, m |-> month, d |-> n - prec + 1]

\* date.weekday(): 0 = Monday .. 6 = Sunday
weekday_of(date) == (toordinal(date) + 6) % 7

\* date + timedelta(days=n)
add_days(date, n) == fromordinal(toordinal(date) + n)

-----------------------------------------------------------------------------
(* str <-> date *)

Digit(n) == <<"0", "1", "2", "3", "4", "5", "6", "7", "8", "9">>[n + 1]

IsDigit(c) == c \in {"0", "1", "2", "3", "4", "5", "6", "7", "8", "9"}

DigitVal(c) == CHOOSE n \in 0..9 : Digit(n) = c

RECURSIVE Dec(_)
\* str(n) for n >= 0
Dec(n) == IF n < 10 THEN <<Digit(n)>> ELSE Dec(n \div 10) \o <<Digit(n % 10)>>

RECURSIVE ZeroPad(_, _)
\* the '0w' part of a format spec: pad on the left to width w
ZeroPad(s, w) == IF Len(s) >= w THEN s ELSE ZeroPad(<<"0">> \o s, w)

\* date.strftime("%Y-%m-%d")
strftime(date) ==
    ZeroPad(Dec(date.y), 4) \o <<"-">> \o ZeroPad(Dec(date.m), 2)
        \o <<"-">> \o ZeroPad(Dec(date.d), 2)

\* f"{YEAR}-{month:02d}-{day:02d}"
format_manual(year, month, day) ==
    Dec(year) \o <<"-">> \o ZeroPad(Dec(month), 2) \o <<"-">> \o ZeroPad(Dec(day), 2)

\* datetime.strptime(s, "%Y-%m-%d").date(), on the ten-character strings the
\* two formatters above produce for four-digit years and two-digit fields
strptime(s) ==
    IF /\ Len(s) = 10
       /\ s[5] = "-" /\ s[8] = "-"
       /\ \A i \in {1, 2, 3, 4, 6, 7, 9, 10} : IsDigit(s[i])
    THEN LET y == DigitVal(s[1]) * 1000 + DigitVal(s[2]) * 100
                  + DigitVal(s[3]) * 10 + DigitVal(s[4])
             m == DigitVal(s[6]) * 10 + DigitVal(s[7])
             d == DigitVal(s[9]) * 10 + DigitVal(s[10])
         IN  IF y >= 1 THEN datetime_date(y, m, d) ELSE ValueError
    ELSE ValueError

-----------------------------------------------------------------------------
(* The result cache *)

EmptyCache == <<>>

\* cache[key] = value
cache_put(c, key, value) ==
    [k \in (DOMAIN c) \cup {key} |-> IF k = key THEN value ELSE c[k]]

\* CACHE_FILE on disk: missing, unreadable by pickle, a pickled dict, or a
\* file that exists and that open() refuses (PermissionError)
AbsentFile == [kind |-> "absent", data |-> EmptyCache]
CorruptFile == [kind |-> "corrupt", data |-> EmptyCache]
UnreadableFile == [kind |-> "unreadable", data |-> EmptyCache]
ValidFile(c) == [kind |-> "valid", data |-> c]

\* load_cache(): a missing file, or one pickle.load rejects with PickleError
\* or EOFError, gives {}
load_cache(file) ==
    IF file.kind = "valid" THEN file.data ELSE EmptyCache

\* load_cache(): open() raises an OSError, which the except clause
\* (pickle.PickleError, EOFError) does not name
load_cache_raises(file) == file.kind = "unreadable"

\* load_cache(): the warning of the except clause
load_cache_log(file) ==
    IF file.kind = "corrupt"
    THEN <<[level |-> "WARNING", what |-> "Failed to load cache",
            name |-> "", date |-> <<>>]>>
    ELSE <<>>

-----------------------------------------------------------------------------
(* Date-rule evaluators: each returns [ret, cache] *)

\* mutant: the correction term m is left out
easter_date_no_m(year) ==
    LET a == year % 19
        b == year \div 100
        c == year % 100
        d == b \div 4
        e == b % 4
        f == (b + 8) \div 25
        g == (b - f + 1) \div 3
        h == (19 * a + b - d - g + 15) % 30
        i == c \div 4
        k == c % 4
        offset_l == (32 + 2 * e + 2 * i - h - k) % 7
        month == (h + offset_l + 114) \div 31
        day == ((h + offset_l + 114) % 31) + 1
    IN  datetime_date(year, month, day)

easter_date(year) ==
    LET a == year % 19
        b == year \div 100
        c == year % 100
        d == b \div 4
        e == b % 4
        f == (b + 8) \div 25
        g == (b - f + 1) \div 3
        h == (19 * a + b - d - g + 15) % 30
        i == c \div 4
        k == c % 4
        offset_l == (32 + 2 * e + 2 * i - h - k) % 7
        m == (a + 11 * h + 22 * offset_l) \div 451
        month == (h + offset_l - 7 * m + 114) \div 31
        day == ((h + offset_l - 7 * m + 114) % 31) + 1
    IN  datetime_date(year, month, day)

\* mutant: the century term b is left out of the epact
get_easter_sunday_no_b(year, c) ==
    LET cache_key == <<"easter", year>>
        a == year % 19
        b == year \div 100
        cc == year % 100
        d == b \div 4
        e == b % 4
        f == (b + 8) \div 25
        g == (b - f + 1) \div 3
        h == (19 * a - d - g + 15) % 30
        i == cc \div 4
        k == cc % 4
        offset_l == (32 + 2 * e + 2 * i - h - k) % 7
        m == (a + 11 * h + 22 * offset_l) \div 451
        month == (h + offset_l - 7 * m + 114) \div 31
        day == ((h + offset_l - 7 * m + 114) % 31) + 1
        date == datetime_date(year, month, day)
    IN  IF cache_key \in DOMAIN c
        THEN [ret |-> strptime(c[cache_key]), cache |-> c]
        ELSE [ret |-> date, cache |-> cache_put(c, cache_key, strftime(date))]

\* mutant: the cache key leaves the year out
get_easter_sunday_one_key(year, c) ==
    LET cache_key == <<"easter">>
    IN  IF cache_key \in DOMAIN c
        THEN [ret |-> strptime(c[cache_key]), cache |-> c]
        ELSE LET date == easter_date(year)
             IN  [ret |-> date, cache |-> cache_put(c, cache_key, strftime(date))]

get_easter_sunday(year, c) ==
    LET cache_key == <<"easter", year>>
    IN  IF cache_key \in DOMAIN c
        THEN [ret |-> strptime(c[cache_key]), cache |-> c]
        ELSE LET date == easter_date(year)
             IN  [ret |-> date, cache |-> cache_put(c, cache_key, strftime(date))]

\* mutant: timedelta(weeks=nth) instead of weeks=nth - 1
nth_weekday_date_weeks(year, month, weekday, nth) ==
    LET first_day == datetime_date(year, month, 1)
    IN  IF first_day = ValueError THEN ValueError
        ELSE LET first_weekday ==
                     add_days(first_day, (weekday - weekday_of(first_day) + 7) % 7)
             IN  add_days(first_weekday, 7 * nth)

\* mutant: an occurrence outside the requested month is an error
nth_weekday_date_in_month(year, month, weekday, nth) ==
    LET first_day == datetime_date(year, month, 1)
    IN  IF first_day = ValueError THEN ValueError
        ELSE LET first_weekday ==
                     add_days(first_day, (weekday - weekday_of(first_day) + 7) % 7)
                 date == add_days(first_weekday, 7 * (nth - 1))
             IN  IF date.m = month THEN date ELSE ValueError

nth_weekday_date(year, month, weekday, nth) ==
    LET first_day == datetime_date(year, month, 1)
    IN  IF first_day = ValueError THEN ValueError
        ELSE LET first_weekday ==
                     add_days(first_day, (weekday - weekday_of(first_day) + 7) % 7)
             IN  add_days(first_weekday, 7 * (nth - 1))

get_nth_weekday(year, month, weekday, nth, c) ==
    LET cache_key == <<"nth", year, month, weekday, nth>>
    IN  IF cache_key \in DOMAIN c
        THEN [ret |-> strptime(c[cache_key]), cache |-> c]
        ELSE LET date == nth_weekday_date(year, month, weekday, nth)
             IN  IF date = ValueError THEN [ret |-> ValueError, cache |-> c]
                 ELSE [ret |-> date, cache |-> cache_put(c, cache_key, strftime(date))]

\* mutant: no year rollover after December
last_weekday_date_no_rollover(year, month, weekday) ==
    LET next_month == (month % 12) + 1
        last_day == add_days(datetime_date(year, next_month, 1), -1)
        days_to_subtract == (weekday_of(last_day) - weekday + 7) % 7
    IN  add_days(last_day, 0 - days_to_subtract)

last_weekday_date(year, month, weekday) ==
    LET next_month == (month % 12) + 1
        next_year == IF next_month # 1 THEN year ELSE year + 1
        last_day == add_days(datetime_date(next_year, next_month, 1), -1)
        days_to_subtract == (weekday_of(last_day) - weekday + 7) % 7
    IN  add_days(last_day, 0 - days_to_subtract)

get_last_weekday(year, month, weekday, c) ==
    LET cache_key == <<"last", year, month, weekday>>
    IN  IF cache_key \in DOMAIN c
        THEN [ret |-> strptime(c[cache_key]), cache |-> c]
        ELSE LET date == last_weekday_date(year, month, weekday)
             IN  [ret |-> date, cache |-> cache_put(c, cache_key, strftime(date))]

\* get_federal_holidays(year, federal_holidays): [ret, raised].  It loads its
\* own cache from CACHE_FILE and never saves it.
RECURSIVE federal_loop(_, _, _, _)
\* mutant: 'last' is not recognised, the rule is evaluated as a first weekday
federal_loop_no_last(year, defs, c, acc) ==
    IF defs = <<>> THEN [ret |-> acc, raised |-> FALSE]
    ELSE LET holiday == Head(defs)
             r == IF "day" \in DOMAIN holiday
                  THEN [ret |-> datetime_date(year, holiday.month, holiday.day),
                        cache |-> c]
                  ELSE get_nth_weekday(year, holiday.month, holiday.weekday,
                                       IF "nth" \in DOMAIN holiday
                                       THEN holiday.nth ELSE 1, c)
         IN  IF r.ret = ValueError THEN [ret |-> acc, raised |-> TRUE]
             ELSE federal_loop(year, Tail(defs), r.cache,
                               Append(acc, [name |-> holiday.name,
                                            date |-> strftime(r.ret)]))

federal_loop(year, defs, c, acc) ==
    IF defs = <<>> THEN [ret |-> acc, raised |-> FALSE]
    ELSE LET holiday == Head(defs)
             r == IF "day" \in DOMAIN holiday
                  THEN [ret |-> datetime_date(year, holiday.month, holiday.day),
                        cache |-> c]
                  ELSE IF "last" \in DOMAIN holiday
                  THEN get_last_weekday(year, holiday.month, holiday.weekday, c)
                  ELSE get_nth_weekday(year, holiday.month, holiday.weekday,
                                       holiday.nth, c)
         IN  IF r.ret = ValueError THEN [ret |-> acc, raised |-> TRUE]
             ELSE federal_loop(year, Tail(defs), r.cache,
                               Append(acc, [name |-> holiday.name,
                                            date |-> strftime(r.ret)]))

get_federal_holidays(year, federal_holidays, file) ==
    IF load_cache_raises(file) THEN [ret |-> <<>>, raised |-> TRUE]
    ELSE federal_loop(year, federal_holidays, load_cache(file), <<>>)

-----------------------------------------------------------------------------
(* Holiday definitions (src/holidays.json) *)

Monday == 0
Thursday == 3
Saturday == 5
Sunday == 6

\* the eleven federal rules
FederalStandard == <<
    [name |-> "New Year's Day", month |-> 1, day |-> 1],
    [name |-> "Martin Luther King Jr. Day", month |-> 1, weekday |-> Monday, nth |-> 3],
    [name |-> "Presidents' Day", month |-> 2, weekday |-> Monday, nth |-> 3],
    [name |-> "Memorial Day", month |-> 5, weekday |-> Monday, last |-> TRUE],
    [name |-> "Juneteenth", month |-> 6, day |-> 19],
    [name |-> "Independence Day", month |-> 7, day |-> 4],
    [name |-> "Labor Day", month |-> 9, weekday |-> Monday, nth |-> 1],
    [name |-> "Columbus Day", month |-> 10, weekday |-> Monday, nth |-> 2],
    [name |-> "Veterans Day", month |-> 11, day |-> 11],
    [name |-> "Thanksgiving Day", month |-> 11, weekday |-> Thursday, nth |-> 4],
    [name |-> "Christmas Day", month |-> 12, day |-> 25] >>

-----------------------------------------------------------------------------
(* Evaluator harness: one unit-level call, applied to a cache dict that     *)
(* starts empty and is kept between the repetitions of the call, as the     *)
(* unit tests do with self.cache.                                           *)

Years == MinYear..MaxYear
Months == 1..12
Weekdays == 0..6

\* the calls of the harness: every argument tuple of the four functions
IsCall(c) ==
    \/ \E y \in Years : c = <<"easter", y>>
    \/ \E y \in Years, m \in Months, w \in Weekdays, n \in 1..MaxNth :
           c = <<"nth", y, m, w, n>>
    \/ \E y \in Years, m \in Months, w \in Weekdays : c = <<"last", y, m, w>>
    \/ \E y \in Years : c = <<"federal", y>>

\* the cache files get_federal_holidays may find: none, an unreadable one,
\* or one an earlier run saved with the year's third-Monday-of-January entry
FederalCacheFiles(y) ==
    {AbsentFile, CorruptFile,
     ValidFile(get_nth_weekday(y, 1, Monday, 3, EmptyCache).cache)}

NoHolidaysFile ==
    [approved_holidays |-> <<>>, manual_holidays |-> <<>>,
     calculated_holidays |-> <<>>, federal_holidays |-> <<>>]

NoArgs == [command |-> "none", start_year |-> 0, end_year |-> 0, dry_run |-> FALSE]

NoOutput == [exists |-> FALSE, events |-> <<>>]

\* no command has started, none has finished
NoStart == [holidays_file |-> NoHolidaysFile, cache_file |-> AbsentFile,
            output_file |-> NoOutput]
NoPrevious == [kind |-> "none"]

InitEval ==
    /\ IsCall(call)
    /\ cache_file \in (IF call[1] = "federal" THEN FederalCacheFiles(call[2])
                       ELSE {AbsentFile})
    /\ holidays_file = [NoHolidaysFile EXCEPT !.federal_holidays = FederalStandard]
    /\ output_file = NoOutput
    /\ pc = "eval"
    /\ args = NoArgs
    /\ cache = EmptyCache
    /\ YEAR = 0
    /\ holidays = <<>>
    /\ seen = {}
    /\ cal = <<>>
    /\ log = <<>>
    /\ exit_code = "none"
    /\ runs = 0
    /\ holiday_config = NoHolidaysFile
    /\ io = <<>>
    /\ budget = 0
    /\ result = ValueError
    /\ result_list = <<>>
    /\ started = NoStart
    /\ previous = NoPrevious

EvalFrame ==
    UNCHANGED <<holidays_file, cache_file, output_file, pc, args, YEAR,
                holidays, seen, cal, log, exit_code, holiday_config, io, budget, call,
                started, previous>>

EvalEaster ==
    /\ pc = "eval" /\ call[1] = "easter" /\ runs < MaxCalls
    /\ LET r == get_easter_sunday(call[2], cache)
       IN  result' = r.ret /\ cache' = r.cache
    /\ runs' = runs + 1
    /\ UNCHANGED result_list
    /\ EvalFrame

EvalNth ==
    /\ pc = "eval" /\ call[1] = "nth" /\ runs < MaxCalls
    /\ LET r == get_nth_weekday(call[2], call[3], call[4], call[5], cache)
       IN  result' = r.ret /\ cache' = r.cache
    /\ runs' = runs + 1
    /\ UNCHANGED result_list
    /\ EvalFrame

EvalLast ==
    /\ pc = "eval" /\ call[1] = "last" /\ runs < MaxCalls
    /\ LET r == get_last_weekday(call[2], call[3], call[4], cache)
       IN  result' = r.ret /\ cache' = r.cache
    /\ runs' = runs + 1
    /\ UNCHANGED result_list
    /\ EvalFrame

EvalFederal ==
    /\ pc = "eval" /\ call[1] = "federal" /\ runs < MaxCalls
    /\ LET r == get_federal_holidays(call[2], holidays_file.federal_holidays, cache_file)
       IN  result_list' = r.ret /\ exit_code' = (IF r.raised THEN "ValueError" ELSE "none")
    /\ runs' = runs + 1
    /\ UNCHANGED <<holidays_file, cache_file, output_file, pc, args, YEAR,
                   holidays, seen, cal, log, holiday_config, io, budget, call, cache, result,
                   started, previous>>

NextEval == EvalEaster \/ EvalNth \/ EvalLast \/ EvalFederal

SpecEval == InitEval /\ [][NextEval]_vars

-----------------------------------------------------------------------------
(* generate_calendar: the pure parts of its loops *)

\* the optional fields a definition hands on to its resolved entry
optional_fields(holiday) ==
    (IF "description" \in DOMAIN holiday
     THEN [description |-> holiday.description] ELSE <<>>)
    @@ (IF "reminder_days" \in DOMAIN holiday
        THEN [reminder_days |-> holiday.reminder_days] ELSE <<>>)

\* the loop over CALCULATED_HOLIDAYS for one year: [ret, cache, raised]
RECURSIVE calculated_loop(_, _, _, _)
calculated_loop(year, defs, c, acc) ==
    IF defs = <<>> THEN [ret |-> acc, cache |-> c, raised |-> FALSE]
    ELSE LET holiday == Head(defs)
             r == IF holiday.type = "easter"
                  THEN get_easter_sunday(year, c)
                  ELSE get_nth_weekday(year, holiday.month, holiday.weekday,
                                       holiday.nth, c)
         IN  IF r.ret = ValueError
             THEN [ret |-> acc, cache |-> c, raised |-> TRUE]
             ELSE calculated_loop(year, Tail(defs), r.cache,
                      Append(acc, [name |-> holiday.name, date |-> strftime(r.ret)]
                                  @@ optional_fields(holiday)))

\* the loop over MANUAL_HOLIDAYS for one year: the date string is formatted,
\* not validated
manual_loop(year, defs) ==
    [i \in 1..Len(defs) |->
        [name |-> defs[i].name,
         date |-> format_manual(year, defs[i].month, defs[i].day)]
        @@ optional_fields(defs[i])]

\* mutant: the groups are concatenated in the order they were computed
year_holidays_as_computed(federal, manual, calculated) ==
    federal \o calculated \o manual

\* lines 217-219: year_holidays.extend(manual), .extend(calculated)
year_holidays(federal, manual, calculated) ==
    federal \o manual \o calculated

fixed_holidays == {"New Year's Day", "Independence Day", "Christmas Day"}

\* mutant: the uid is made of the name alone
make_event_uid_by_name(holiday, dtstart) ==
    [summary |-> holiday.name,
     dtstart |-> dtstart,
     uid |-> <<<<>>, "-", holiday.name, "@mycalendar">>]
    @@ (IF "description" \in DOMAIN holiday
        THEN [description |-> holiday.description] ELSE <<>>)
    @@ (IF "reminder_days" \in DOMAIN holiday
        THEN [alarm |-> [trigger_days |-> 0 - holiday.reminder_days,
                         action |-> "DISPLAY",
                         description |-> <<"Reminder: ", holiday.name, " is tomorrow">>]]
        ELSE <<>>)
    @@ (IF holiday.name \in fixed_holidays /\ "reminder_days" \notin DOMAIN holiday
        THEN [rrule |-> "yearly"] ELSE <<>>)

\* mutant: a fixed holiday recurs yearly whether or not it has a reminder
make_event_rrule_by_name(holiday, dtstart) ==
    [summary |-> holiday.name,
     dtstart |-> dtstart,
     uid |-> <<holiday.date, "-", holiday.name, "@mycalendar">>]
    @@ (IF "description" \in DOMAIN holiday
        THEN [description |-> holiday.description] ELSE <<>>)
    @@ (IF "reminder_days" \in DOMAIN holiday
        THEN [alarm |-> [trigger_days |-> 0 - holiday.reminder_days,
                         action |-> "DISPLAY",
                         description |-> <<"Reminder: ", holiday.name, " is tomorrow">>]]
        ELSE <<>>)
    @@ (IF holiday.name \in fixed_holidays
        THEN [rrule |-> "yearly"] ELSE <<>>)

\* the Event built for an approved holiday
make_event(holiday, dtstart) ==
    [summary |-> holiday.name,
     dtstart |-> dtstart,
     uid |-> <<holiday.date, "-", holiday.name, "@mycalendar">>]
    @@ (IF "description" \in DOMAIN holiday
        THEN [description |-> holiday.description] ELSE <<>>)
    @@ (IF "reminder_days" \in DOMAIN holiday
        THEN [alarm |-> [trigger_days |-> 0 - holiday.reminder_days,
                         action |-> "DISPLAY",
                         description |-> <<"Reminder: ", holiday.name, " is tomorrow">>]]
        ELSE <<>>)
    @@ (IF holiday.name \in fixed_holidays /\ "reminder_days" \notin DOMAIN holiday
        THEN [rrule |-> "yearly"] ELSE <<>>)

InSeq(x, sq) == \E i \in 1..Len(sq) : sq[i] = x

\* adjust_for_observance of the earlier script (src/src/generate_calendar.py),
\* which generate_calendar of the package does not call
adjust_for_observance(holiday_date, holiday_name) ==
    LET date == strptime(holiday_date)
    IN  IF weekday_of(date) = Saturday THEN strftime(add_days(date, -1))
        ELSE IF weekday_of(date) = Sunday THEN strftime(add_days(date, 1))
        ELSE holiday_date

\* the names the earlier script adjusted
observed_holidays ==
    {"New Year's Day", "Independence Day", "Veterans Day", "Christmas Day"}

\* the loop over the assembled holidays: [seen, cal, log]
RECURSIVE project(_, _, _, _, _)
\* mutant: seen.add(holiday_key) is forgotten
project_no_seen_add(hs, approved, seen0, cal0, log0) ==
    IF hs = <<>> THEN [seen |-> seen0, cal |-> cal0, log |-> log0]
    ELSE LET holiday == Head(hs)
             dtstart == strptime(holiday.date)
             holiday_key == <<holiday.name, holiday.date>>
         IN  IF dtstart = ValueError
             THEN project(Tail(hs), approved, seen0, cal0,
                      Append(log0, [level |-> "ERROR", what |-> "Invalid date format",
                                    name |-> holiday.name, date |-> holiday.date]))
             ELSE IF holiday_key \in seen0
             THEN project(Tail(hs), approved, seen0, cal0,
                      Append(log0, [level |-> "WARNING", what |-> "Skipping duplicate",
                                    name |-> holiday.name, date |-> holiday.date]))
             ELSE IF InSeq(holiday.name, approved)
             THEN project(Tail(hs), approved, seen0,
                          Append(cal0, make_event(holiday, dtstart)), log0)
             ELSE project(Tail(hs), approved, seen0, cal0, log0)

\* mutant: the APPROVED_HOLIDAYS test is forgotten
project_no_filter(hs, approved, seen0, cal0, log0) ==
    IF hs = <<>> THEN [seen |-> seen0, cal |-> cal0, log |-> log0]
    ELSE LET holiday == Head(hs)
             dtstart == strptime(holiday.date)
             holiday_key == <<holiday.name, holiday.date>>
         IN  IF dtstart = ValueError
             THEN project(Tail(hs), approved, seen0, cal0,
                      Append(log0, [level |-> "ERROR", what |-> "Invalid date format",
                                    name |-> holiday.name, date |-> holiday.date]))
             ELSE IF holiday_key \in seen0
             THEN project(Tail(hs), approved, seen0, cal0,
                      Append(log0, [level |-> "WARNING", what |-> "Skipping duplicate",
                                    name |-> holiday.name, date |-> holiday.date]))
             ELSE project(Tail(hs), approved, seen0 \cup {holiday_key},
                          Append(cal0, make_event(holiday, dtstart)), log0)

project(hs, approved, seen0, cal0, log0) ==
    IF hs = <<>> THEN [seen |-> seen0, cal |-> cal0, log |-> log0]
    ELSE LET holiday == Head(hs)
             dtstart == strptime(holiday.date)
             holiday_key == <<holiday.name, holiday.date>>
         IN  IF dtstart = ValueError
             THEN project(Tail(hs), approved, seen0, cal0,
                      Append(log0, [level |-> "ERROR", what |-> "Invalid date format",
                                    name |-> holiday.name, date |-> holiday.date]))
             ELSE IF holiday_key \in seen0
             THEN project(Tail(hs), approved, seen0, cal0,
                      Append(log0, [level |-> "WARNING", what |-> "Skipping duplicate",
                                    name |-> holiday.name, date |-> holiday.date]))
             ELSE IF InSeq(holiday.name, approved)
             THEN project(Tail(hs), approved, seen0 \cup {holiday_key},
                          Append(cal0, make_event(holiday, dtstart)), log0)
             ELSE project(Tail(hs), approved, seen0 \cup {holiday_key}, cal0, log0)

-----------------------------------------------------------------------------
(* The generate command, step by step *)

\* the definitions the store may hold
LeapDay == [name |-> "Leap Day", month |-> 2, day |-> 29]
Festivus ==
    [name |-> "Festivus", month |-> 12, day |-> 23,
     description |-> "A Festivus for the rest of us", reminder_days |-> 2]
ChristmasManual ==
    [name |-> "Christmas Day", month |-> 12, day |-> 25, reminder_days |-> 0]
ManualPool == {LeapDay, Festivus, ChristmasManual}

EasterSunday == [name |-> "Easter Sunday", type |-> "easter"]
MothersDay ==
    [name |-> "Mother's Day", type |-> "nth_weekday", month |-> 5,
     weekday |-> Sunday, nth |-> 2, description |-> "Second Sunday in May"]
CalculatedPool == {EasterSunday, MothersDay}

SeqsUpTo(S, n) == UNION {[1..k -> S] : k \in 0..n}

\* the lists of at most n different definitions, in every order
DistinctSeqs(S, n) ==
    {s \in SeqsUpTo(S, n) : \A i, j \in 1..Len(s) : s[i] = s[j] => i = j}

\* the lists that hold one definition twice
Doubled(S) == {<<e, e>> : e \in S}

AllNames ==
    <<"New Year's Day", "Martin Luther King Jr. Day", "Presidents' Day",
      "Memorial Day", "Juneteenth", "Independence Day", "Labor Day",
      "Columbus Day", "Veterans Day", "Thanksgiving Day", "Christmas Day",
      "Festivus", "Leap Day", "Easter Sunday", "Mother's Day">>

SomeNames ==
    <<"New Year's Day", "Independence Day", "Christmas Day", "Festivus",
      "Easter Sunday">>

HolidayFiles ==
    {f \in [approved_holidays : {AllNames, SomeNames},
            manual_holidays : DistinctSeqs(ManualPool, MaxManual)
                                  \cup Doubled(ManualPool),
            calculated_holidays : DistinctSeqs(CalculatedPool, MaxCalculated),
            federal_holidays : {FederalStandard, <<>>}] :
        f.federal_holidays = <<>> => f.approved_holidays = AllNames}

\* the years a command is started with
YearInputs == {MinYear - 1, MinYear, MaxYear, MaxYear + 1} \cup 2024..2026

\* the year ranges: spans below MaxSpan either way round, and the ranges of
\* the tests
RunInputs ==
    {<<s, e>> \in YearInputs \X YearInputs : e - s < MaxSpan /\ s - e < MaxSpan}
    \cup {<<1800, 2025>>, <<MinYear - 1, MaxYear>>, <<MinYear, MaxYear + 1>>}

Init ==
    /\ holidays_file \in HolidayFiles
    /\ cache_file = AbsentFile
    /\ output_file = NoOutput
    /\ budget = 1
    /\ pc = "idle"
    /\ args = NoArgs
    /\ cache = EmptyCache
    /\ YEAR = 0
    /\ holidays = <<>>
    /\ seen = {}
    /\ cal = <<>>
    /\ log = <<>>
    /\ exit_code = "none"
    /\ runs = 0
    /\ holiday_config = NoHolidaysFile
    /\ io = <<>>
    /\ call = <<"none">>
    /\ result = ValueError
    /\ result_list = <<>>
    /\ started = NoStart
    /\ previous = NoPrevious

Harness == UNCHANGED <<budget, call, result, result_list, started, previous>>

\* a command starts: the stores it finds, and the command that ran before it
Starts ==
    /\ started' = [holidays_file |-> holidays_file, cache_file |-> cache_file,
                   output_file |-> output_file]
    /\ previous' = IF runs = 0 THEN NoPrevious
                   ELSE [kind |-> args.command, args |-> args, cal |-> cal,
                         exit_code |-> exit_code, started |-> started]
    /\ UNCHANGED <<budget, call, result, result_list>>

\* mutant: the upper limit is not checked
InvalidRange_no_upper(start_year, end_year) ==
    start_year > end_year \/ start_year < MinYear

\* lines 167-171
InvalidRange(start_year, end_year) ==
    start_year > end_year \/ start_year < MinYear \/ end_year > MaxYear

\* mutant: the stores are read before the range is checked
Generate_reads_first(start_year, end_year, dry_run) ==
    /\ pc \in {"idle", "done"}
    /\ runs < budget
    /\ runs' = runs + 1
    /\ args' = [command |-> "generate", start_year |-> start_year,
                end_year |-> end_year, dry_run |-> dry_run]
    /\ cache' = EmptyCache
    /\ YEAR' = 0
    /\ holidays' = <<>>
    /\ seen' = {}
    /\ cal' = <<>>
    /\ IF InvalidRange(start_year, end_year)
       THEN /\ holiday_config' = holidays_file
            /\ io' = <<"read holidays", "read cache">>
            /\ log' = <<[level |-> "ERROR", what |-> "Invalid year range",
                         name |-> "", date |-> <<>>]>>
            /\ exit_code' = 1
            /\ pc' = "done"
       ELSE /\ holiday_config' = NoHolidaysFile
            /\ io' = <<>>
            /\ log' = <<>>
            /\ exit_code' = "none"
            /\ pc' = "load"
    /\ UNCHANGED <<holidays_file, cache_file, output_file>>
    /\ Starts

\* the generate command starts a fresh process and validates the range
Generate(start_year, end_year, dry_run) ==
    /\ pc \in {"idle", "done"}
    /\ runs < budget
    /\ runs' = runs + 1
    /\ args' = [command |-> "generate", start_year |-> start_year,
                end_year |-> end_year, dry_run |-> dry_run]
    /\ cache' = EmptyCache
    /\ YEAR' = 0
    /\ holidays' = <<>>
    /\ seen' = {}
    /\ cal' = <<>>
    /\ holiday_config' = NoHolidaysFile
    /\ io' = <<>>
    /\ IF InvalidRange(start_year, end_year)
       THEN /\ log' = <<[level |-> "ERROR", what |-> "Invalid year range",
                         name |-> "", date |-> <<>>]>>
            /\ exit_code' = 1
            /\ pc' = "done"
       ELSE /\ log' = <<>>
            /\ exit_code' = "none"
            /\ pc' = "load"
    /\ UNCHANGED <<holidays_file, cache_file, output_file>>
    /\ Starts

\* holidays_file on disk when load_holidays cannot use it: no such file, or
\* a file json.load rejects
MissingStore == [kind |-> "absent"]
MalformedStore == [kind |-> "malformed"]

\* load_holidays: FileNotFoundError or JSONDecodeError
load_holidays_fails(file) == "kind" \in DOMAIN file

\* lines 173-184: load_holidays, load_cache, the loop starts
Load ==
    /\ pc = "load"
    /\ ~load_holidays_fails(holidays_file)
    /\ holiday_config' = holidays_file
    /\ io' = io \o <<"read holidays", "read cache">>
    /\ IF load_cache_raises(cache_file)
       THEN /\ pc' = "done"
            /\ exit_code' = 1
            /\ log' = Append(log, [level |-> "EXCEPTION", what |-> "OSError",
                                   name |-> "", date |-> <<>>])
            /\ UNCHANGED <<cache, YEAR>>
       ELSE /\ cache' = load_cache(cache_file)
            /\ log' = log \o load_cache_log(cache_file)
            /\ YEAR' = args.start_year
            /\ pc' = "years"
            /\ UNCHANGED exit_code
    /\ UNCHANGED <<holidays_file, cache_file, output_file, args, holidays, seen,
                   cal, runs>>
    /\ Harness

\* lines 185-219: one iteration of the loop over the years.  An exception of
\* an evaluator is not caught: the process ends with status 1.
ProcessYear ==
    /\ pc = "years"
    /\ YEAR <= args.end_year
    /\ LET federal == get_federal_holidays(YEAR, holiday_config.federal_holidays,
                                           cache_file)
           calculated == calculated_loop(YEAR, holiday_config.calculated_holidays,
                                         cache, <<>>)
           manual == manual_loop(YEAR, holiday_config.manual_holidays)
       IN  /\ io' = Append(io, "read cache")
           /\ IF federal.raised
              THEN /\ pc' = "done"
                   /\ exit_code' = 1
                   /\ log' = Append(log, [level |-> "EXCEPTION", what |-> "ValueError",
                                          name |-> "", date |-> <<>>])
                   /\ UNCHANGED <<cache, holidays, YEAR>>
              ELSE IF calculated.raised
              THEN /\ pc' = "done"
                   /\ exit_code' = 1
                   /\ log' = Append(log, [level |-> "EXCEPTION", what |-> "ValueError",
                                          name |-> "", date |-> <<>>])
                   /\ UNCHANGED <<cache, holidays, YEAR>>
              ELSE /\ holidays' = holidays \o year_holidays(federal.ret, manual,
                                                             calculated.ret)
                   /\ cache' = calculated.cache
                   /\ YEAR' = YEAR + 1
                   /\ log' = log \o load_cache_log(cache_file)
                   /\ UNCHANGED <<pc, exit_code>>
    /\ UNCHANGED <<holidays_file, cache_file, output_file, args, seen, cal,
                   runs, holiday_config>>
    /\ Harness

\* line 221, save_cache succeeds
SaveCache ==
    /\ pc = "years"
    /\ YEAR > args.end_year
    /\ cache_file' = ValidFile(cache)
    /\ io' = Append(io, "write cache")
    /\ pc' = "project"
    /\ UNCHANGED <<holidays_file, output_file, args, cache, YEAR, holidays, seen,
                   cal, log, exit_code, runs, holiday_config>>
    /\ Harness

\* line 221, save_cache meets an IOError opening the file: logged, not fatal
SaveCacheFails ==
    /\ pc = "years"
    /\ YEAR > args.end_year
    /\ log' = Append(log, [level |-> "ERROR", what |-> "Failed to save cache",
                           name |-> "", date |-> <<>>])
    /\ pc' = "project"
    /\ UNCHANGED <<holidays_file, cache_file, output_file, args, cache, YEAR,
                   holidays, seen, cal, exit_code, runs, holiday_config, io>>
    /\ Harness

\* lines 224-262: the calendar is built from the assembled list
BuildCalendar ==
    /\ pc = "project"
    /\ LET r == project(holidays, holiday_config.approved_holidays, seen, cal, log)
       IN  seen' = r.seen /\ cal' = r.cal /\ log' = r.log
    /\ pc' = "finish"
    /\ UNCHANGED <<holidays_file, cache_file, output_file, args, cache, YEAR,
                   holidays, exit_code, runs, holiday_config, io>>
    /\ Harness

\* mutant: the dry run writes the file as well
DryRunReturn_writes ==
    /\ pc = "finish"
    /\ args.dry_run
    /\ output_file' = [exists |-> TRUE, events |-> cal]
    /\ log' = Append(log, [level |-> "INFO", what |-> "Dry run complete",
                           name |-> "", date |-> <<>>])
    /\ exit_code' = 0
    /\ pc' = "done"
    /\ UNCHANGED <<holidays_file, cache_file, args, cache, YEAR,
                   holidays, seen, cal, runs, holiday_config, io>>
    /\ Harness

\* lines 264-266
DryRunReturn ==
    /\ pc = "finish"
    /\ args.dry_run
    /\ log' = Append(log, [level |-> "INFO", what |-> "Dry run complete",
                           name |-> "", date |-> <<>>])
    /\ exit_code' = 0
    /\ pc' = "done"
    /\ UNCHANGED <<holidays_file, cache_file, output_file, args, cache, YEAR,
                   holidays, seen, cal, runs, holiday_config, io>>
    /\ Harness

\* lines 268-271
WriteOutput ==
    /\ pc = "finish"
    /\ ~args.dry_run
    /\ output_file' = [exists |-> TRUE, events |-> cal]
    /\ io' = Append(io, "write output")
    /\ log' = Append(log, [level |-> "INFO", what |-> "Calendar saved",
                           name |-> "", date |-> <<>>])
    /\ exit_code' = 0
    /\ pc' = "done"
    /\ UNCHANGED <<holidays_file, cache_file, args, cache, YEAR, holidays, seen,
                   cal, runs, holiday_config>>
    /\ Harness

\* lines 272-274: an IOError opening the output file is fatal
WriteOutputFails ==
    /\ pc = "finish"
    /\ ~args.dry_run
    /\ log' = Append(log, [level |-> "ERROR", what |-> "Failed to save iCal file",
                           name |-> "", date |-> <<>>])
    /\ exit_code' = 1
    /\ pc' = "done"
    /\ UNCHANGED <<holidays_file, cache_file, output_file, args, cache, YEAR,
                   holidays, seen, cal, runs, holiday_config, io>>
    /\ Harness

Next ==
    \/ \E r \in RunInputs, dry_run \in BOOLEAN : Generate(r[1], r[2], dry_run)
    \/ Load
    \/ ProcessYear
    \/ SaveCache
    \/ SaveCacheFails
    \/ BuildCalendar
    \/ DryRunReturn
    \/ WriteOutput
    \/ WriteOutputFails

Spec == Init /\ [][Next]_vars

-----------------------------------------------------------------------------
(* Repeated generate commands over stores left by earlier ones *)

\* the stores the repeated runs work on: one without federal rules, one with
RunFiles ==
    {[approved_holidays |-> AllNames,
      manual_holidays |-> <<LeapDay, ChristmasManual>>,
      calculated_holidays |-> <<MothersDay>>,
      federal_holidays |-> <<>>],
     [approved_holidays |-> SomeNames,
      manual_holidays |-> <<Festivus>>,
      calculated_holidays |-> <<EasterSunday>>,
      federal_holidays |-> FederalStandard]}

\* the cache file the first run finds
FirstCacheFiles == {AbsentFile, CorruptFile, UnreadableFile}

\* the year ranges of the repeated runs
RepeatInputs == {<<2024, 2024>>, <<2025, 2025>>, <<2024, 2025>>, <<2026, 2025>>}

InitRuns ==
    /\ holidays_file \in RunFiles
    /\ cache_file \in FirstCacheFiles
    /\ output_file = NoOutput
    /\ budget = MaxGenerates
    /\ pc = "idle"
    /\ args = NoArgs
    /\ cache = EmptyCache
    /\ YEAR = 0
    /\ holidays = <<>>
    /\ seen = {}
    /\ cal = <<>>
    /\ log = <<>>
    /\ exit_code = "none"
    /\ runs = 0
    /\ holiday_config = NoHolidaysFile
    /\ io = <<>>
    /\ call = <<"none">>
    /\ result = ValueError
    /\ result_list = <<>>
    /\ started = NoStart
    /\ previous = NoPrevious

NextRuns ==
    \/ \E r \in RepeatInputs, dry_run \in BOOLEAN : Generate(r[1], r[2], dry_run)
    \/ Load
    \/ ProcessYear
    \/ SaveCache
    \/ SaveCacheFails
    \/ BuildCalendar
    \/ DryRunReturn
    \/ WriteOutput
    \/ WriteOutputFails

SpecRuns == InitRuns /\ [][NextRuns]_vars

-----------------------------------------------------------------------------
(* Generate commands that find no usable store, or that are interrupted *)

\* lines 173, 55-60: load_holidays logs the error and ends the process
LoadHolidaysFails ==
    /\ pc = "load"
    /\ load_holidays_fails(holidays_file)
    /\ io' = Append(io, "read holidays")
    /\ log' = Append(log, [level |-> "ERROR",
                           what |-> IF holidays_file.kind = "absent"
                                    THEN "not found" ELSE "is malformed",
                           name |-> "", date |-> <<>>])
    /\ exit_code' = 1
    /\ pc' = "done"
    /\ UNCHANGED <<holidays_file, cache_file, output_file, args, cache, YEAR,
                   holidays, seen, cal, runs, holiday_config>>
    /\ Harness

\* OUTPUT_FILE after open(OUTPUT_FILE, "wb") and a write that did not finish:
\* whatever part was written, the earlier content is gone
BrokenOutput == [exists |-> TRUE, events |-> <<>>, complete |-> FALSE]

\* lines 269-274: open() has truncated the file and f.write raises an IOError
WriteOutputBreaks ==
    /\ pc = "finish"
    /\ ~args.dry_run
    /\ output_file' = BrokenOutput
    /\ io' = Append(io, "write output")
    /\ log' = Append(log, [level |-> "ERROR", what |-> "Failed to save iCal file",
                           name |-> "", date |-> <<>>])
    /\ exit_code' = 1
    /\ pc' = "done"
    /\ UNCHANGED <<holidays_file, cache_file, args, cache, YEAR, holidays, seen,
                   cal, runs, holiday_config>>
    /\ Harness

\* the process is killed between two statements of generate_calendar (the
\* shell reports 128 + SIGKILL)
Crash ==
    /\ pc \in {"load", "years", "project", "finish"}
    /\ exit_code' = 137
    /\ pc' = "done"
    /\ UNCHANGED <<holidays_file, cache_file, output_file, args, cache, YEAR,
                   holidays, seen, cal, log, runs, holiday_config, io>>
    /\ Harness

\* the stores the commands find
FaultStores ==
    {[approved_holidays |-> SomeNames,
      manual_holidays |-> <<Festivus>>,
      calculated_holidays |-> <<EasterSunday>>,
      federal_holidays |-> FederalStandard],
     MissingStore, MalformedStore}

\* the year ranges: two valid ones, and one invalid in each of the three ways
FaultInputs ==
    {<<2025, 2025>>, <<2024, 2025>>, <<2026, 2025>>,
     <<MinYear - 1, MinYear - 1>>, <<MaxYear + 1, MaxYear + 1>>}

InitFaults ==
    /\ holidays_file \in FaultStores
    /\ cache_file \in {AbsentFile, CorruptFile}
    /\ output_file = NoOutput
    /\ budget = MaxGenerates
    /\ pc = "idle"
    /\ args = NoArgs
    /\ cache = EmptyCache
    /\ YEAR = 0
    /\ holidays = <<>>
    /\ seen = {}
    /\ cal = <<>>
    /\ log = <<>>
    /\ exit_code = "none"
    /\ runs = 0
    /\ holiday_config = NoHolidaysFile
    /\ io = <<>>
    /\ call = <<"none">>
    /\ result = ValueError
    /\ result_list = <<>>
    /\ started = NoStart
    /\ previous = NoPrevious

NextFaults ==
    \/ \E r \in FaultInputs, dry_run \in BOOLEAN : Generate(r[1], r[2], dry_run)
    \/ Load
    \/ LoadHolidaysFails
    \/ ProcessYear
    \/ SaveCache
    \/ SaveCacheFails
    \/ BuildCalendar
    \/ DryRunReturn
    \/ WriteOutput
    \/ WriteOutputFails
    \/ WriteOutputBreaks
    \/ Crash

SpecFaults == InitFaults /\ [][NextFaults]_vars

-----------------------------------------------------------------------------
(* The add-holiday and remove-holiday commands *)

\* add_holiday validates the day in a leap year
ReferenceLeapYear == 2024

\* h["name"] == name for some h of the list
HasName(defs, name) == \E i \in 1..Len(defs) : defs[i].name = name

\* [h for h in defs if h["name"] != name]
without_name(defs, name) == SelectSeq(defs, LAMBDA h : h.name # name)

LogRecord(level, what, name) ==
    [level |-> level, what |-> what, name |-> name, date |-> <<>>]

\* mutant: the day is validated in the year 2025
add_holiday_this_year(config, name, month, day) ==
    IF ~(1 <= month /\ month <= 12)
    THEN [exit_code |-> 1, config |-> config, io |-> <<>>,
          log |-> <<LogRecord("ERROR", "Invalid month", name)>>]
    ELSE IF datetime_date(ReferenceLeapYear + 1, month, day) = ValueError
    THEN [exit_code |-> 1, config |-> config, io |-> <<>>,
          log |-> <<LogRecord("ERROR", "Invalid date", name)>>]
    ELSE IF \/ HasName(config.manual_holidays, name)
            \/ HasName(config.calculated_holidays, name)
            \/ HasName(config.federal_holidays, name)
    THEN [exit_code |-> 1, config |-> config, io |-> <<"read holidays">>,
          log |-> <<LogRecord("ERROR", "already exists", name)>>]
    ELSE [exit_code |-> 0,
          config |-> [config EXCEPT
              !.manual_holidays =
                  Append(@, [name |-> name, month |-> month, day |-> day]),
              !.approved_holidays =
                  IF InSeq(name, @) THEN @ ELSE Append(@, name)],
          io |-> <<"read holidays", "write holidays">>,
          log |-> <<LogRecord("INFO", "Added holiday", name)>>]

\* mutant: the name is appended to approved_holidays whether or not it is there
add_holiday_approves_again(config, name, month, day) ==
    IF ~(1 <= month /\ month <= 12)
    THEN [exit_code |-> 1, config |-> config, io |-> <<>>,
          log |-> <<LogRecord("ERROR", "Invalid month", name)>>]
    ELSE IF datetime_date(ReferenceLeapYear, month, day) = ValueError
    THEN [exit_code |-> 1, config |-> config, io |-> <<>>,
          log |-> <<LogRecord("ERROR", "Invalid date", name)>>]
    ELSE IF \/ HasName(config.manual_holidays, name)
            \/ HasName(config.calculated_holidays, name)
            \/ HasName(config.federal_holidays, name)
    THEN [exit_code |-> 1, config |-> config, io |-> <<"read holidays">>,
          log |-> <<LogRecord("ERROR", "already exists", name)>>]
    ELSE [exit_code |-> 0,
          config |-> [config EXCEPT
              !.manual_holidays =
                  Append(@, [name |-> name, month |-> month, day |-> day]),
              !.approved_holidays = Append(@, name)],
          io |-> <<"read holidays", "write holidays">>,
          log |-> <<LogRecord("INFO", "Added holiday", name)>>]

\* lines 315-341: what add_holiday does to the store it loaded, its exit
\* status, its log records and its file operations
add_holiday(config, name, month, day) ==
    IF ~(1 <= month /\ month <= 12)
    THEN [exit_code |-> 1, config |-> config, io |-> <<>>,
          log |-> <<LogRecord("ERROR", "Invalid month", name)>>]
    ELSE IF datetime_date(ReferenceLeapYear, month, day) = ValueError
    THEN [exit_code |-> 1, config |-> config, io |-> <<>>,
          log |-> <<LogRecord("ERROR", "Invalid date", name)>>]
    ELSE IF \/ HasName(config.manual_holidays, name)
            \/ HasName(config.calculated_holidays, name)
            \/ HasName(config.federal_holidays, name)
    THEN [exit_code |-> 1, config |-> config, io |-> <<"read holidays">>,
          log |-> <<LogRecord("ERROR", "already exists", name)>>]
    ELSE [exit_code |-> 0,
          config |-> [config EXCEPT
              !.manual_holidays =
                  Append(@, [name |-> name, month |-> month, day |-> day]),
              !.approved_holidays =
                  IF InSeq(name, @) THEN @ ELSE Append(@, name)],
          io |-> <<"read holidays", "write holidays">>,
          log |-> <<LogRecord("INFO", "Added holiday", name)>>]

\* mutant: the federal rules are not filtered
remove_holiday_keeps_federal(config, name) ==
    LET after == [approved_holidays |->
                      SelectSeq(config.approved_holidays, LAMBDA h : h # name),
                  manual_holidays |-> without_name(config.manual_holidays, name),
                  calculated_holidays |->
                      without_name(config.calculated_holidays, name),
                  federal_holidays |-> config.federal_holidays]
    IN  [exit_code |-> 0, config |-> after,
         io |-> <<"read holidays", "write holidays">>,
         log |-> (IF Len(after.approved_holidays) = Len(config.approved_holidays)
                  THEN <<LogRecord("WARNING", "not found in any list", name)>>
                  ELSE <<>>)
                 \o <<LogRecord("INFO", "Removed holiday", name)>>]

\* mutant: approved_holidays is not filtered
remove_holiday_keeps_approved(config, name) ==
    LET after == [approved_holidays |-> config.approved_holidays,
                  manual_holidays |-> without_name(config.manual_holidays, name),
                  calculated_holidays |->
                      without_name(config.calculated_holidays, name),
                  federal_holidays |-> without_name(config.federal_holidays, name)]
    IN  [exit_code |-> 0, config |-> after,
         io |-> <<"read holidays", "write holidays">>,
         log |-> (IF Len(after.approved_holidays) = Len(config.approved_holidays)
                  THEN <<LogRecord("WARNING", "not found in any list", name)>>
                  ELSE <<>>)
                 \o <<LogRecord("INFO", "Removed holiday", name)>>]

\* lines 349-373
remove_holiday(config, name) ==
    LET after == [approved_holidays |->
                      SelectSeq(config.approved_holidays, LAMBDA h : h # name),
                  manual_holidays |-> without_name(config.manual_holidays, name),
                  calculated_holidays |->
                      without_name(config.calculated_holidays, name),
                  federal_holidays |-> without_name(config.federal_holidays, name)]
    IN  [exit_code |-> 0, config |-> after,
         io |-> <<"read holidays", "write holidays">>,
         log |-> (IF Len(after.approved_holidays) = Len(config.approved_holidays)
                  THEN <<LogRecord("WARNING", "not found in any list", name)>>
                  ELSE <<>>)
                 \o <<LogRecord("INFO", "Removed holiday", name)>>]

\* a store command is a process of its own: nothing of a generate run is left
FreshProcess ==
    /\ cache' = EmptyCache
    /\ YEAR' = 0
    /\ holidays' = <<>>
    /\ seen' = {}
    /\ cal' = <<>>
    /\ holiday_config' = NoHolidaysFile
    /\ UNCHANGED <<cache_file, output_file>>

\* the add-holiday command
AddHoliday(name, month, day) ==
    /\ pc \in {"idle", "done"}
    /\ runs < budget
    /\ runs' = runs + 1
    /\ args' = [command |-> "add-holiday", name |-> name, month |-> month,
                day |-> day]
    /\ LET r == add_holiday(holidays_file, name, month, day)
       IN  /\ holidays_file' = r.config
           /\ exit_code' = r.exit_code
           /\ log' = r.log
           /\ io' = r.io
    /\ pc' = "done"
    /\ FreshProcess
    /\ Starts

\* the remove-holiday command
RemoveHoliday(name) ==
    /\ pc \in {"idle", "done"}
    /\ runs < budget
    /\ runs' = runs + 1
    /\ args' = [command |-> "remove-holiday", name |-> name]
    /\ LET r == remove_holiday(holidays_file, name)
       IN  /\ holidays_file' = r.config
           /\ exit_code' = r.exit_code
           /\ log' = r.log
           /\ io' = r.io
    /\ pc' = "done"
    /\ FreshProcess
    /\ Starts

\* the stores the commands are tried on
Halloween == [name |-> "Halloween", month |-> 10, day |-> 31]
StoreFiles ==
    RunFiles \cup
    {[approved_holidays |-> <<"Festivus", "Christmas Day", "Festivus", "Halloween">>,
      manual_holidays |-> <<ChristmasManual, Festivus, Halloween, Festivus>>,
      calculated_holidays |-> <<EasterSunday, MothersDay>>,
      federal_holidays |-> FederalStandard]}

\* the arguments the commands are tried with
NameInputs == {"Christmas Day", "Festivus", "Groundhog Day"}
MonthInputs == {0, 2, 4, 13}
DayInputs == {0, 29, 30, 31}

InitStore ==
    /\ holidays_file \in StoreFiles
    /\ cache_file = AbsentFile
    /\ output_file = NoOutput
    /\ budget = MaxEdits
    /\ pc = "idle"
    /\ args = NoArgs
    /\ cache = EmptyCache
    /\ YEAR = 0
    /\ holidays = <<>>
    /\ seen = {}
    /\ cal = <<>>
    /\ log = <<>>
    /\ exit_code = "none"
    /\ runs = 0
    /\ holiday_config = NoHolidaysFile
    /\ io = <<>>
    /\ call = <<"none">>
    /\ result = ValueError
    /\ result_list = <<>>
    /\ started = NoStart
    /\ previous = NoPrevious

NextStore ==
    \/ \E name \in NameInputs, month \in MonthInputs, day \in DayInputs :
          AddHoliday(name, month, day)
    \/ \E name \in NameInputs : RemoveHoliday(name)

SpecStore == InitStore /\ [][NextStore]_vars

-----------------------------------------------------------------------------
(* Sequences of store commands on a store whose names are unique *)

InitUnique ==
    /\ holidays_file \in RunFiles
    /\ cache_file = AbsentFile
    /\ output_file = NoOutput
    /\ budget = MaxSequence
    /\ pc = "idle"
    /\ args = NoArgs
    /\ cache = EmptyCache
    /\ YEAR = 0
    /\ holidays = <<>>
    /\ seen = {}
    /\ cal = <<>>
    /\ log = <<>>
    /\ exit_code = "none"
    /\ runs = 0
    /\ holiday_config = NoHolidaysFile
    /\ io = <<>>
    /\ call = <<"none">>
    /\ result = ValueError
    /\ result_list = <<>>
    /\ started = NoStart
    /\ previous = NoPrevious

NextUnique ==
    \/ \E name \in NameInputs, month \in {2, 13}, day \in {29, 30} :
          AddHoliday(name, month, day)
    \/ \E name \in NameInputs : RemoveHoliday(name)

SpecUnique == InitUnique /\ [][NextUnique]_vars

-----------------------------------------------------------------------------
(* Sessions that add a holiday and generate from the edited store *)

\* a fixed-day rule for February 29 in the federal list
LeapDayRule == [name |-> "Leap Day", month |-> 2, day |-> 29]

\* the stores of the sessions: one that names Leap Day nowhere, and one with
\* the February 29 rule among the federal rules
LeapStores ==
    {[approved_holidays |-> SomeNames,
      manual_holidays |-> <<Festivus>>,
      calculated_holidays |-> <<EasterSunday>>,
      federal_holidays |-> FederalStandard],
     [approved_holidays |-> <<"Leap Day", "Christmas Day", "Mother's Day">>,
      manual_holidays |-> <<>>,
      calculated_holidays |-> <<MothersDay>>,
      federal_holidays |->
          <<LeapDayRule, [name |-> "Christmas Day", month |-> 12, day |-> 25]>>]}

\* a leap year, the year after it, and both
LeapInputs == {<<2024, 2024>>, <<2025, 2025>>, <<2024, 2025>>}

InitLeap ==
    /\ holidays_file \in LeapStores
    /\ cache_file = AbsentFile
    /\ output_file = NoOutput
    /\ budget = MaxCommands
    /\ pc = "idle"
    /\ args = NoArgs
    /\ cache = EmptyCache
    /\ YEAR = 0
    /\ holidays = <<>>
    /\ seen = {}
    /\ cal = <<>>
    /\ log = <<>>
    /\ exit_code = "none"
    /\ runs = 0
    /\ holiday_config = NoHolidaysFile
    /\ io = <<>>
    /\ call = <<"none">>
    /\ result = ValueError
    /\ result_list = <<>>
    /\ started = NoStart
    /\ previous = NoPrevious

NextLeap ==
    \/ \E day \in {29, 30} : AddHoliday("Leap Day", 2, day)
    \/ \E r \in LeapInputs, dry_run \in BOOLEAN : Generate(r[1], r[2], dry_run)
    \/ Load
    \/ ProcessYear
    \/ SaveCache
    \/ SaveCacheFails
    \/ BuildCalendar
    \/ DryRunReturn
    \/ WriteOutput
    \/ WriteOutputFails

SpecLeap == InitLeap /\ [][NextLeap]_vars

-----------------------------------------------------------------------------
(* Claims about the evaluators (checked under SpecEval) *)

\* the harness has made its first call: a cache miss, the cache was empty
Missed(kind) == pc = "eval" /\ call[1] = kind /\ runs = 1

\* C1: for every year Y in 1900..2100, get_easter_sunday(Y, cache) on a cache
\* miss returns a date of year Y between March 22 and April 25 inclusive.
C1_EasterWindow ==
    Missed("easter") =>
        /\ result.y = call[2]
        /\ \/ result.m = 3 /\ result.d >= 22 /\ result.d <= 31
           \/ result.m = 4 /\ result.d >= 1 /\ result.d <= 25

\* both ends of the window are reached from a cache miss
C1_Witness ==
    /\ Missed("easter") /\ call[2] = 2038
    /\ result = [y |-> 2038, m |-> 4, d |-> 25]
    /\ <<"easter", 2038>> \in DOMAIN cache

\* C2: on a cache miss get_easter_sunday returns exactly 2025-04-20 for 2025
\* and 2026-04-05 for 2026.
C2_EasterKnownYears ==
    /\ (Missed("easter") /\ call[2] = 2025) => result = [y |-> 2025, m |-> 4, d |-> 20]
    /\ (Missed("easter") /\ call[2] = 2026) => result = [y |-> 2026, m |-> 4, d |-> 5]

C2_Witness ==
    Missed("easter") /\ call[2] = 2026 /\ result.m = 4 /\ cache # EmptyCache

\* C3: for every year in 1900..2100, month, weekday (0 = Monday) and nth in
\* 1..4, get_nth_weekday on a cache miss returns a date inside the requested
\* month and year, on the requested weekday, with day-of-month in
\* [7*(nth-1)+1, 7*nth]; (2025, 1, Monday, 3) gives 2025-01-20 and
\* (2025, 11, Thursday, 4) gives 2025-11-27.
C3_NthWeekday ==
    /\ (Missed("nth") /\ call[5] \in 1..4) =>
           /\ result.y = call[2]
           /\ result.m = call[3]
           /\ weekday_of(result) = call[4]
           /\ result.d >= 7 * (call[5] - 1) + 1
           /\ result.d <= 7 * call[5]
    /\ (Missed("nth") /\ call = <<"nth", 2025, 1, 0, 3>>) =>
           result = [y |-> 2025, m |-> 1, d |-> 20]
    /\ (Missed("nth") /\ call = <<"nth", 2025, 11, 3, 4>>) =>
           result = [y |-> 2025, m |-> 11, d |-> 27]

\* a fourth occurrence that lands on the 28th, the last day it can
C3_Witness ==
    /\ Missed("nth") /\ call[5] = 4 /\ call[3] = 2
    /\ result.d = 28 /\ result.m = 2

\* C4: for every year in 1900..2100, month (December included) and weekday,
\* get_last_weekday on a cache miss returns a date inside the requested month
\* and year, on the requested weekday, and the date 7 days later is in the
\* following month; (2025, 5, Monday) gives 2025-05-26.
C4_LastWeekday ==
    /\ Missed("last") =>
           /\ result.y = call[2]
           /\ result.m = call[3]
           /\ weekday_of(result) = call[4]
           /\ LET later == add_days(result, 7)
              IN  IF call[3] = 12
                  THEN later.y = call[2] + 1 /\ later.m = 1
                  ELSE later.y = call[2] /\ later.m = call[3] + 1
    /\ (Missed("last") /\ call = <<"last", 2025, 5, 0>>) =>
           result = [y |-> 2025, m |-> 5, d |-> 26]

\* a December call, where the following month is January of the next year
C4_Witness ==
    /\ Missed("last") /\ call[3] = 12 /\ call[2] = 2100
    /\ result.y = 2100 /\ result.m = 12 /\ result.d = 31

Federal2025 == <<
        [name |-> "New Year's Day",
         date |-> <<"2", "0", "2", "5", "-", "0", "1", "-", "0", "1">>],
        [name |-> "Martin Luther King Jr. Day",
         date |-> <<"2", "0", "2", "5", "-", "0", "1", "-", "2", "0">>],
        [name |-> "Presidents' Day",
         date |-> <<"2", "0", "2", "5", "-", "0", "2", "-", "1", "7">>],
        [name |-> "Memorial Day",
         date |-> <<"2", "0", "2", "5", "-", "0", "5", "-", "2", "6">>],
        [name |-> "Juneteenth",
         date |-> <<"2", "0", "2", "5", "-", "0", "6", "-", "1", "9">>],
        [name |-> "Independence Day",
         date |-> <<"2", "0", "2", "5", "-", "0", "7", "-", "0", "4">>],
        [name |-> "Labor Day",
         date |-> <<"2", "0", "2", "5", "-", "0", "9", "-", "0", "1">>],
        [name |-> "Columbus Day",
         date |-> <<"2", "0", "2", "5", "-", "1", "0", "-", "1", "3">>],
        [name |-> "Veterans Day",
         date |-> <<"2", "0", "2", "5", "-", "1", "1", "-", "1", "1">>],
        [name |-> "Thanksgiving Day",
         date |-> <<"2", "0", "2", "5", "-", "1", "1", "-", "2", "7">>],
        [name |-> "Christmas Day",
         date |-> <<"2", "0", "2", "5", "-", "1", "2", "-", "2", "5">>] >>

\* C5: get_federal_holidays(2025, defs) with the eleven federal rules returns
\* exactly the eleven (name, date) entries of 2025, one per rule and in rule
\* order.
C5_Federal2025 ==
    (pc = "eval" /\ call = <<"federal", 2025>> /\ runs >= 1) =>
        result_list = Federal2025 /\ exit_code = "none"

C5_Witness ==
    /\ pc = "eval" /\ call = <<"federal", 2025>> /\ runs = 1
    /\ Len(result_list) = 11
    /\ cache_file = AbsentFile

\* the day of the month of the first occurrence of the weekday: the one day
\* of the first seven that falls on it
FirstOccurrence(year, month, weekday) ==
    CHOOSE d \in 1..7 : weekday_of([y |-> year, m |-> month, d |-> d]) = weekday

\* C24: get_nth_weekday performs no bounds check: when the requested nth
\* occurrence does not exist in the month, it returns without error the date
\* exactly 7*(nth-1) days after the first occurrence, which falls on the
\* requested weekday in the following month (for December, in January of the
\* next year).
C24_NthWeekdayOverflows ==
    (pc = "eval" /\ call[1] = "nth" /\ runs >= 1) =>
        LET year == call[2]
            month == call[3]
            weekday == call[4]
            nth == call[5]
            first == FirstOccurrence(year, month, weekday)
            day == first + 7 * (nth - 1)
            length == days_in_month(year, month)
        IN  day > length =>
                /\ result # ValueError
                /\ toordinal(result)
                      = toordinal([y |-> year, m |-> month, d |-> first])
                        + 7 * (nth - 1)
                /\ weekday_of(result) = weekday
                /\ IF month = 12
                   THEN result.y = year + 1 /\ result.m = 1
                   ELSE result.y = year /\ result.m = month + 1
                /\ result.d = day - length

\* December 2025 has four Thursdays: the fifth is 2026-01-01, also when the
\* call is answered from the cache
C24_Witness ==
    /\ pc = "eval" /\ call = <<"nth", 2025, 12, Thursday, 5>>
    /\ runs = 2
    /\ result = [y |-> 2026, m |-> 1, d |-> 1]
    /\ cache[<<"nth", 2025, 12, Thursday, 5>>]
          = <<"2", "0", "2", "6", "-", "0", "1", "-", "0", "1">>

-----------------------------------------------------------------------------
(* Claims about the generate command (checked under Spec) *)

\* the loop over the years has run to its end
Assembled == pc \in {"project", "finish"} \/ (pc = "years" /\ YEAR > args.end_year)

\* the calendar of the running command has been built
Projected ==
    \/ pc = "finish"
    \/ /\ pc = "done"
       /\ log # <<>>
       /\ log[Len(log)].what \in {"Dry run complete", "Calendar saved",
                                  "Failed to save iCal file"}

Approved(name) == InSeq(name, holiday_config.approved_holidays)

\* entry i of the assembled list names a date that exists
WellFormed(i) == strptime(holidays[i].date) # ValueError

SameKey(i, j) ==
    holidays[i].name = holidays[j].name /\ holidays[i].date = holidays[j].date

\* entry i is well-formed and no earlier entry has its (name, date)
IsFirst(i) == WellFormed(i) /\ \A j \in 1..(i - 1) : ~SameKey(j, i)

RECURSIVE KeptFrom(_)
\* the indices, in list order, of the first occurrences with an approved name
KeptFrom(i) ==
    IF i > Len(holidays) THEN <<>>
    ELSE (IF IsFirst(i) /\ Approved(holidays[i].name) THEN <<i>> ELSE <<>>)
         \o KeptFrom(i + 1)

\* the date string an event was emitted with (the head of its uid)
EmittedDate(event) == event.uid[1]

RangeRejected ==
    /\ pc = "done"
    /\ exit_code = 1
    /\ InSeq([level |-> "ERROR", what |-> "Invalid year range", name |-> "",
              date |-> <<>>], log)

\* C6: generate_calendar(start, end) fails with the InvalidRange outcome (error
\* logged, nonzero exit) if and only if start > end, or start or end lies
\* outside [1900, 2100].
C6_InvalidRangeIff ==
    runs >= 1 =>
        (RangeRejected <=>
            \/ args.start_year > args.end_year
            \/ args.start_year < 1900 \/ args.start_year > 2100
            \/ args.end_year < 1900 \/ args.end_year > 2100)

\* the range of the test, 1800 to 2025, is rejected
C6_Witness ==
    /\ args.start_year = 1800 /\ args.end_year = 2025
    /\ RangeRejected
    /\ io = <<>>

\* C7: the emitted events hold at most one event per (name, emitted date); of
\* the entries of the assembled list with the same (name, date) the first in
\* list order is the one kept, every later one is dropped with a recorded
\* warning, and the run is not aborted.  (An entry whose date string names no
\* date, a February 29 outside a leap year, resolves to no date: it is dropped
\* before the comparison and stands for no pair.)
C7_Deduplicated ==
    /\ \A k1, k2 \in 1..Len(cal) :
          (cal[k1].summary = cal[k2].summary
              /\ EmittedDate(cal[k1]) = EmittedDate(cal[k2])) => k1 = k2
    /\ output_file.exists =>
          \A k1, k2 \in 1..Len(output_file.events) :
              (output_file.events[k1].summary = output_file.events[k2].summary
                  /\ output_file.events[k1].dtstart = output_file.events[k2].dtstart)
                  => k1 = k2
    /\ Projected =>
          LET kept == KeptFrom(1)
               dropped == {i \in 1..Len(holidays) : WellFormed(i) /\ ~IsFirst(i)}
               warnings == {n \in 1..Len(log) : log[n].what = "Skipping duplicate"}
           IN  /\ Len(cal) = Len(kept)
               /\ \A k \in 1..Len(kept) :
                     /\ cal[k].summary = holidays[kept[k]].name
                     /\ EmittedDate(cal[k]) = holidays[kept[k]].date
                     /\ ("alarm" \in DOMAIN cal[k]
                            <=> "reminder_days" \in DOMAIN holidays[kept[k]])
               /\ Cardinality(warnings) = Cardinality(dropped)
               /\ \A i \in dropped : \E n \in warnings :
                     /\ log[n].level = "WARNING"
                     /\ log[n].name = holidays[i].name
                     /\ log[n].date = holidays[i].date
               /\ (pc = "done" /\ log[Len(log)].what # "Failed to save iCal file")
                     => exit_code = 0

\* the manual Christmas Day repeats the federal one: the federal entry, which
\* comes first and has no reminder, is the event; the run ends with status 0
C7_Witness ==
    /\ pc = "done" /\ exit_code = 0
    /\ \E n \in 1..Len(log) :
          log[n].what = "Skipping duplicate" /\ log[n].name = "Christmas Day"
    /\ \E k \in 1..Len(cal) :
          cal[k].summary = "Christmas Day" /\ "alarm" \notin DOMAIN cal[k]

\* C8: every emitted event has a name in approved_holidays; every assembled,
\* non-duplicate, well-formed entry with an approved name is emitted; entries
\* with unapproved names are computed but are not in the output.
C8_ApprovedOnly ==
    Projected =>
        /\ \A k \in 1..Len(cal) : Approved(cal[k].summary)
        /\ \A i \in 1..Len(holidays) :
              IF Approved(holidays[i].name)
              THEN IsFirst(i) =>
                      \E k \in 1..Len(cal) :
                          /\ cal[k].summary = holidays[i].name
                          /\ EmittedDate(cal[k]) = holidays[i].date
              ELSE \A k \in 1..Len(cal) : cal[k].summary # holidays[i].name
        /\ (pc = "done" /\ exit_code = 0 /\ ~args.dry_run) => output_file.events = cal

\* Memorial Day is computed, is not approved and is not written, while
\* Independence Day is
C8_Witness ==
    /\ pc = "done" /\ exit_code = 0 /\ output_file.exists
    /\ \E i \in 1..Len(holidays) : holidays[i].name = "Memorial Day"
    /\ ~Approved("Memorial Day")
    /\ \E k \in 1..Len(output_file.events) :
          output_file.events[k].summary = "Independence Day"

\* the place in the assembled list of the first entry an event stands for
FirstIndex(event) ==
    LET matches == {i \in 1..Len(holidays) :
                        /\ holidays[i].name = event.summary
                        /\ holidays[i].date = EmittedDate(event)}
    IN  IF matches = {} THEN 0
        ELSE CHOOSE i \in matches : \A j \in matches : i <= j

\* the names of the definitions of the store, in the order of the claim
GroupNames ==
    LET names(defs) == [i \in 1..Len(defs) |-> defs[i].name]
    IN  names(holiday_config.federal_holidays)
        \o names(holiday_config.manual_holidays)
        \o names(holiday_config.calculated_holidays)

\* C9: the assembled list is ordered by ascending year and within each year
\* lists all federal entries, then all manual entries, then all calculated
\* entries, each group in its configuration order; the emitted events keep
\* this order.
C9_AssemblyOrder ==
    /\ Assembled =>
          LET names == GroupNames
              n == Len(names)
              years == args.end_year - args.start_year + 1
              digits == [t \in 0..(years - 1) |-> Dec(args.start_year + t)]
          IN  /\ Len(holidays) = n * years
              /\ \A t \in 0..(years - 1), q \in 1..n :
                    /\ holidays[t * n + q].name = names[q]
                    /\ SubSeq(holidays[t * n + q].date, 1, 4) = digits[t]
    /\ Projected =>
          LET place == [k \in 1..Len(cal) |-> FirstIndex(cal[k])]
          IN  \A k1, k2 \in 1..Len(cal) :
                  k1 < k2 =>
                      /\ place[k1] < place[k2]
                      /\ cal[k1].dtstart.y <= cal[k2].dtstart.y

\* a run over two years with entries in all three groups, two of them manual
C9_Witness ==
    /\ Projected
    /\ args.end_year = args.start_year + 1
    /\ holiday_config.federal_holidays = FederalStandard
    /\ Len(holiday_config.manual_holidays) = 2
    /\ holiday_config.manual_holidays[1] # holiday_config.manual_holidays[2]
    /\ Len(holiday_config.calculated_holidays) = 1
    /\ Len(cal) > Len(GroupNames)

\* C10: an emitted holiday named New Year's Day, Independence Day,
\* Veterans Day or Christmas Day has its computed date shifted one day earlier
\* from a Saturday and one day later from a Sunday; any other emitted holiday
\* has its computed date.
C10_ObservanceShift ==
    Projected =>
        LET kept == KeptFrom(1)
        IN  \A k \in 1..Len(cal) :
                k <= Len(kept) =>
                    EmittedDate(cal[k]) =
                        IF holidays[kept[k]].name \in observed_holidays
                        THEN adjust_for_observance(holidays[kept[k]].date,
                                                   holidays[kept[k]].name)
                        ELSE holidays[kept[k]].date

\* Independence Day 2026 falls on a Saturday and is emitted on 2026-07-04,
\* not on Friday 2026-07-03
C10_Witness ==
    /\ Projected
    /\ \E k \in 1..Len(cal) :
          /\ cal[k].summary = "Independence Day"
          /\ cal[k].dtstart = [y |-> 2026, m |-> 7, d |-> 4]
          /\ weekday_of(cal[k].dtstart) = Saturday
          /\ EmittedDate(cal[k]) = <<"2", "0", "2", "6", "-", "0", "7", "-", "0", "4">>

\* the entry of the assembled list that event k was made from
Source(k) == holidays[KeptFrom(1)[k]]

\* C13: an emitted event has an alarm when its holiday has reminder_days
\* present and greater than 0, and the alarm triggers reminder_days days before
\* the event; a holiday whose reminder_days is absent or 0 gets no alarm.
C13_AlarmIffPositive ==
    Projected =>
        LET kept == KeptFrom(1)
        IN  \A k \in 1..Len(cal) :
                IF /\ "reminder_days" \in DOMAIN holidays[kept[k]]
                   /\ holidays[kept[k]].reminder_days > 0
                THEN /\ "alarm" \in DOMAIN cal[k]
                     /\ cal[k].alarm.trigger_days = 0 - holidays[kept[k]].reminder_days
                ELSE "alarm" \notin DOMAIN cal[k]

\* the manual Christmas Day with reminder_days 0 is emitted with an alarm that
\* triggers 0 days before it; Festivus with reminder_days 2 has one 2 days before
C13_Witness ==
    /\ Projected
    /\ \E k \in 1..Len(cal) :
          /\ cal[k].summary = "Christmas Day"
          /\ Source(k).reminder_days = 0
          /\ "alarm" \in DOMAIN cal[k]
          /\ cal[k].alarm.trigger_days = 0
    /\ \E k \in 1..Len(cal) :
          /\ cal[k].summary = "Festivus"
          /\ cal[k].alarm.trigger_days = 0 - 2

\* C14: an emitted event has a yearly recurrence rule if and only if its name
\* is New Year's Day, Independence Day or Christmas Day and its holiday entry
\* has no reminder_days field; the Christmas Day event of 2025 starts on
\* 2025-12-25 and recurs yearly.
C14_RruleIff ==
    Projected =>
        LET kept == KeptFrom(1)
        IN  \A k \in 1..Len(cal) :
                /\ "rrule" \in DOMAIN cal[k]
                      <=> /\ cal[k].summary \in {"New Year's Day", "Independence Day",
                                                 "Christmas Day"}
                          /\ "reminder_days" \notin DOMAIN holidays[kept[k]]
                /\ "rrule" \in DOMAIN cal[k] => cal[k].rrule = "yearly"
                /\ (cal[k].summary = "Christmas Day" /\ cal[k].dtstart.y = 2025)
                      => cal[k].dtstart = [y |-> 2025, m |-> 12, d |-> 25]

\* a run for 2025 alone gives the federal Christmas Day on 2025-12-25 with
\* the yearly rule and no alarm
C14_Witness ==
    /\ Projected
    /\ args.start_year = 2025 /\ args.end_year = 2025
    /\ \E k \in 1..Len(cal) :
          /\ cal[k].summary = "Christmas Day"
          /\ cal[k].dtstart = [y |-> 2025, m |-> 12, d |-> 25]
          /\ "rrule" \in DOMAIN cal[k] /\ cal[k].rrule = "yearly"
          /\ "alarm" \notin DOMAIN cal[k]

\* C15: in a run over more than one year, an approved holiday named New
\* Year's Day, Independence Day or Christmas Day without reminder_days is
\* emitted as a single yearly-recurring event, not one event per year.
C15_SingleRecurringEvent ==
    (Projected /\ args.end_year > args.start_year) =>
        \A k1, k2 \in 1..Len(cal) :
            (cal[k1].summary = cal[k2].summary /\ "rrule" \in DOMAIN cal[k1])
                => k1 = k2

\* a run over two years emits Independence Day twice, once per year, each
\* event recurring yearly
C15_Witness ==
    /\ Projected
    /\ args.end_year = args.start_year + 1
    /\ \E k1, k2 \in 1..Len(cal) :
          /\ cal[k1].summary = "Independence Day"
          /\ cal[k2].summary = "Independence Day"
          /\ cal[k1].dtstart.y = args.start_year
          /\ cal[k2].dtstart.y = args.end_year
          /\ cal[k1].rrule = "yearly" /\ cal[k2].rrule = "yearly"

\* the number of entries of the operation record that are op
Count(ops, op) == Cardinality({n \in 1..Len(ops) : ops[n] = op})

\* the cache key of a rule of the store for a year, <<>> for a fixed date
RuleKey(rule, year) ==
    IF "type" \in DOMAIN rule /\ rule.type = "easter" THEN <<"easter", year>>
    ELSE IF "last" \in DOMAIN rule THEN <<"last", year, rule.month, rule.weekday>>
    ELSE IF "nth" \in DOMAIN rule
    THEN <<"nth", year, rule.month, rule.weekday, rule.nth>>
    ELSE <<>>

\* the run in progress started from no cache, ended with status 0 and saved
SavedFromEmpty ==
    /\ pc = "done" /\ exit_code = 0
    /\ started.cache_file = AbsentFile
    /\ InSeq("write cache", io)

\* C20: after a successful run from an empty cache the persisted cache has an
\* entry for every Easter, nth-weekday and last-weekday rule instance the run
\* evaluated, for federal and for calculated rules, mapping the key to the ISO
\* date returned; the cache store is read once and written once.
C20_CachePersisted ==
    SavedFromEmpty =>
        /\ cache_file.kind = "valid"
        /\ \A i \in 1..Len(holidays) :
              LET n == Len(GroupNames)
                  q == ((i - 1) % n) + 1
                  year == args.start_year + ((i - 1) \div n)
                  rules == holiday_config.federal_holidays
                           \o holiday_config.manual_holidays
                           \o holiday_config.calculated_holidays
                  key == RuleKey(rules[q], year)
              IN  key # <<>> =>
                      /\ key \in DOMAIN cache_file.data
                      /\ cache_file.data[key] = holidays[i].date
        /\ Count(io, "read cache") = 1
        /\ Count(io, "write cache") = 1

\* a successful run for 2025 with the federal rules: the persisted cache has
\* no entry for Martin Luther King Jr. Day (third Monday of January), and the
\* cache file was read twice
C20_Witness ==
    /\ SavedFromEmpty
    /\ args.start_year = 2025 /\ args.end_year = 2025
    /\ \E i \in 1..Len(holidays) : holidays[i].name = "Martin Luther King Jr. Day"
    /\ <<"nth", 2025, 1, Monday, 3>> \notin DOMAIN cache_file.data
    /\ Count(io, "read cache") = 2
    /\ Count(io, "write cache") = 1

-----------------------------------------------------------------------------
(* Claims about repeated generate commands (checked under SpecRuns) *)

\* the command before the running one was a generate command that ended with
\* status 0, over the same year range
SameAsBefore ==
    /\ previous.kind = "generate"
    /\ previous.exit_code = 0
    /\ previous.args.start_year = args.start_year
    /\ previous.args.end_year = args.end_year
    /\ previous.started.holidays_file = started.holidays_file

\* the years are a valid range and the cache file can be opened
RunnableInputs ==
    /\ args.start_year <= args.end_year
    /\ args.start_year >= 1900 /\ args.end_year <= 2100
    /\ started.cache_file.kind # "unreadable"

\* C11: a run with dry_run set ends with exit status 0 and leaves the output
\* artifact as it was before the run (absent stays absent); a following run
\* with the same inputs and dry_run unset writes the artifact.
C11_DryRunWritesNothing ==
    /\ (runs >= 1 /\ args.dry_run) =>
          /\ output_file = started.output_file
          /\ ~InSeq("write output", io)
          /\ (pc = "done" /\ RunnableInputs) =>
                /\ exit_code = 0
                /\ log[Len(log)].what = "Dry run complete"
    /\ (SameAsBefore /\ previous.args.dry_run /\ ~args.dry_run /\ pc = "done") =>
          \/ /\ exit_code = 0
             /\ output_file = [exists |-> TRUE, events |-> cal]
             /\ cal = previous.cal
          \/ /\ exit_code = 1
             /\ log[Len(log)].what = "Failed to save iCal file"

\* a dry run for 2025 left no artifact, and the run for 2025 after it wrote
\* one with the events the dry run had computed
C11_Witness ==
    /\ SameAsBefore /\ previous.args.dry_run /\ ~args.dry_run
    /\ args.start_year = 2025 /\ args.end_year = 2025
    /\ started.output_file = NoOutput
    /\ pc = "done" /\ exit_code = 0
    /\ output_file.exists
    /\ output_file.events # <<>>
    /\ output_file.events = previous.cal

RECURSIVE AssembleFresh(_, _, _, _, _)
\* the list a run over year..end_year assembles when no cache file exists
AssembleFresh(year, end_year, config, c, acc) ==
    IF year > end_year THEN acc
    ELSE LET federal == get_federal_holidays(year, config.federal_holidays, AbsentFile)
             calculated == calculated_loop(year, config.calculated_holidays, c, <<>>)
             manual == manual_loop(year, config.manual_holidays)
         IN  AssembleFresh(year + 1, end_year, config, calculated.cache,
                 acc \o year_holidays(federal.ret, manual, calculated.ret))

\* the events of a run that starts without a cache
FreshEvents(config, start_year, end_year) ==
    project(AssembleFresh(start_year, end_year, config, EmptyCache, <<>>),
            config.approved_holidays, {}, <<>>, <<>>).cal

\* the (name, date) pairs of a list of events, in order
Pairs(events) ==
    [k \in 1..Len(events) |-> <<events[k].summary, EmittedDate(events[k])>>]

\* C12: for a fixed configuration and year range the sequence of emitted
\* (name, date) pairs is the same whether the run starts from an absent or
\* empty cache or from the cache persisted by earlier runs of the program;
\* running the generation twice in a row gives identical results.
C12_CacheIndependent ==
    Projected =>
        /\ Pairs(cal) = Pairs(FreshEvents(holiday_config, args.start_year,
                                          args.end_year))
        /\ SameAsBefore => Pairs(cal) = Pairs(previous.cal)

\* the run for 2025 found the cache the run for 2024..2025 had saved, took
\* Easter 2025 from it and emitted it on 2025-04-20
C12_Witness ==
    /\ Projected
    /\ previous.kind = "generate" /\ previous.exit_code = 0
    /\ previous.args.start_year = 2024 /\ previous.args.end_year = 2025
    /\ args.start_year = 2025 /\ args.end_year = 2025
    /\ started.cache_file.kind = "valid"
    /\ <<"easter", 2025>> \in DOMAIN started.cache_file.data
    /\ \E k \in 1..Len(cal) :
          /\ cal[k].summary = "Easter Sunday"
          /\ cal[k].dtstart = [y |-> 2025, m |-> 4, d |-> 20]

\* the events this command and the one before it emitted
EventsSeen ==
    {cal[k] : k \in 1..Len(cal)}
    \cup (IF previous.kind = "generate"
          THEN {previous.cal[k] : k \in 1..Len(previous.cal)} ELSE {})
    \cup {output_file.events[k] : k \in 1..Len(output_file.events)}

\* C16: the unique identifier of an emitted event is a function of its
\* (emitted date, name) only: two runs over the same inputs give the same
\* identifier for the same holiday, and within one run no two emitted events
\* share an identifier.
C16_UidByDateAndName ==
    /\ \A k1, k2 \in 1..Len(cal) : cal[k1].uid = cal[k2].uid => k1 = k2
    /\ \A e1, e2 \in EventsSeen :
          (e1.summary = e2.summary /\ e1.dtstart = e2.dtstart) <=> e1.uid = e2.uid
    /\ \A e \in EventsSeen :
          e.uid = <<strftime(e.dtstart), "-", e.summary, "@mycalendar">>
    /\ (Projected /\ SameAsBefore) =>
          [k \in 1..Len(cal) |-> cal[k].uid]
              = [k \in 1..Len(previous.cal) |-> previous.cal[k].uid]

\* the run for 2024..2025 repeats one for 2024..2025: the events have the
\* identifiers they had, among them Christmas Day of both years
C16_Witness ==
    /\ Projected /\ SameAsBefore
    /\ args.start_year = 2024 /\ args.end_year = 2025
    /\ \E k1, k2 \in 1..Len(cal) :
          /\ cal[k1].summary = "Christmas Day" /\ cal[k2].summary = "Christmas Day"
          /\ cal[k1].dtstart.y = 2024 /\ cal[k2].dtstart.y = 2025
          /\ cal[k1].uid # cal[k2].uid
          /\ previous.cal[k1].uid = cal[k1].uid
          /\ previous.cal[k2].uid = cal[k2].uid

\* C19: a missing, unreadable or corrupt cache store never makes
\* generate_calendar fail: the run proceeds as with an empty cache, recomputes
\* every date and emits the events a run with a valid cache emits.
C19_CacheNeverFatal ==
    (runs >= 1 /\ started.cache_file.kind \in {"absent", "unreadable", "corrupt"}
        /\ args.start_year <= args.end_year) =>
        /\ pc = "done" =>
              \/ exit_code = 0
              \/ log[Len(log)].what = "Failed to save iCal file"
        /\ pc \in {"years", "project", "finish"} => io[2] = "read cache"
        /\ Projected =>
              /\ cal = FreshEvents(holiday_config, args.start_year, args.end_year)
              /\ SameAsBefore => cal = previous.cal

\* the cache file cannot be opened: the run for 2025 ends with status 1 on
\* the exception of open(), before any date is computed
C19_Witness ==
    /\ started.cache_file = UnreadableFile
    /\ args.start_year = 2025 /\ args.end_year = 2025
    /\ pc = "done" /\ exit_code = 1
    /\ log[Len(log)].level = "EXCEPTION"
    /\ holidays = <<>> /\ cal = <<>>

-----------------------------------------------------------------------------
(* Claims about the store commands (checked under SpecStore) *)

\* the days of the months of 2024
DaysIn2024 == <<31, 29, 31, 30, 31, 30, 31, 31, 30, 31, 30, 31>>

\* the running command is add-holiday and its month and day name a day of 2024
AddIsValid ==
    /\ args.month \in 1..12
    /\ args.day >= 1
    /\ args.day <= DaysIn2024[args.month]

\* the name of the running command is the name of no definition of the store
\* the command found
NameIsNew ==
    LET before == started.holidays_file
    IN  \A i \in 1..Len(before.manual_holidays \o before.calculated_holidays
                        \o before.federal_holidays) :
            (before.manual_holidays \o before.calculated_holidays
                \o before.federal_holidays)[i].name # args.name

\* C17: add_holiday(name, month, day) rejects the request (nonzero exit,
\* 'Invalid month' or 'Invalid date' logged) whenever month is outside 1..12
\* or the day does not exist in that month of 2024, and then leaves the store
\* unchanged; a valid request for a new name appends {name, month, day} to
\* manual_holidays and puts the name in approved_holidays.
C17_AddHolidayValidates ==
    (pc = "done" /\ args.command = "add-holiday") =>
        LET before == started.holidays_file
        IN  /\ ~AddIsValid =>
                  /\ exit_code = 1
                  /\ holidays_file = before
                  /\ ~InSeq("write holidays", io)
                  /\ log[1].level = "ERROR"
                  /\ log[1].what = IF args.month \in 1..12 THEN "Invalid date"
                                   ELSE "Invalid month"
            /\ (AddIsValid /\ NameIsNew) =>
                  /\ exit_code = 0
                  /\ holidays_file.manual_holidays =
                        before.manual_holidays
                        \o <<[name |-> args.name, month |-> args.month,
                              day |-> args.day]>>
                  /\ InSeq(args.name, holidays_file.approved_holidays)
                  /\ holidays_file.calculated_holidays = before.calculated_holidays
                  /\ holidays_file.federal_holidays = before.federal_holidays
                  /\ \/ holidays_file.approved_holidays = before.approved_holidays
                     \/ holidays_file.approved_holidays =
                           Append(before.approved_holidays, args.name)
            /\ exit_code = 1 => holidays_file = before

\* Groundhog Day on February 29 is accepted and stored; it was rejected on
\* February 30 by the command before
C17_Witness ==
    /\ pc = "done" /\ args.command = "add-holiday"
    /\ args.name = "Groundhog Day" /\ args.month = 2 /\ args.day = 29
    /\ exit_code = 0
    /\ holidays_file.manual_holidays[Len(holidays_file.manual_holidays)]
          = [name |-> "Groundhog Day", month |-> 2, day |-> 29]
    /\ previous.kind = "add-holiday"
    /\ previous.args.month = 2 /\ previous.args.day = 30
    /\ previous.exit_code = 1
    /\ previous.started.holidays_file = started.holidays_file

\* the entries of a list of definitions whose name is not name, in order
RECURSIVE OthersOf(_, _)
OthersOf(defs, name) ==
    IF defs = <<>> THEN <<>>
    ELSE (IF Head(defs).name = name THEN <<>> ELSE <<Head(defs)>>)
         \o OthersOf(Tail(defs), name)

RECURSIVE OtherNamesOf(_, _)
OtherNamesOf(names, name) ==
    IF names = <<>> THEN <<>>
    ELSE (IF Head(names) = name THEN <<>> ELSE <<Head(names)>>)
         \o OtherNamesOf(Tail(names), name)

\* C18: after remove_holiday(name) the name is in none of manual_holidays,
\* calculated_holidays, federal_holidays and approved_holidays; every entry
\* with another name is kept, unchanged and in its original relative order;
\* the exit status is 0 whether or not the name existed.
C18_RemoveHoliday ==
    (pc = "done" /\ args.command = "remove-holiday") =>
        LET before == started.holidays_file
        IN  /\ exit_code = 0
            /\ \A i \in 1..Len(holidays_file.manual_holidays) :
                  holidays_file.manual_holidays[i].name # args.name
            /\ \A i \in 1..Len(holidays_file.calculated_holidays) :
                  holidays_file.calculated_holidays[i].name # args.name
            /\ \A i \in 1..Len(holidays_file.federal_holidays) :
                  holidays_file.federal_holidays[i].name # args.name
            /\ \A i \in 1..Len(holidays_file.approved_holidays) :
                  holidays_file.approved_holidays[i] # args.name
            /\ holidays_file.manual_holidays
                  = OthersOf(before.manual_holidays, args.name)
            /\ holidays_file.calculated_holidays
                  = OthersOf(before.calculated_holidays, args.name)
            /\ holidays_file.federal_holidays
                  = OthersOf(before.federal_holidays, args.name)
            /\ holidays_file.approved_holidays
                  = OtherNamesOf(before.approved_holidays, args.name)

\* Christmas Day was a federal rule, a manual entry and an approved name: it
\* is gone from all of them and the ten other federal rules are left; the
\* command before removed a name no list had, with status 0
C18_Witness ==
    /\ pc = "done" /\ args.command = "remove-holiday" /\ exit_code = 0
    /\ args.name = "Christmas Day"
    /\ HasName(started.holidays_file.federal_holidays, "Christmas Day")
    /\ HasName(started.holidays_file.manual_holidays, "Christmas Day")
    /\ Len(holidays_file.federal_holidays) = 10
    /\ Len(holidays_file.manual_holidays) = 3
    /\ previous.kind = "remove-holiday"
    /\ previous.args.name = "Groundhog Day"
    /\ previous.exit_code = 0

-----------------------------------------------------------------------------
(* Claims about interrupted and rejected runs (checked under SpecFaults) *)

\* the running generate command has assembled the holidays of all its years
\* and then ended without a completed write of the output file: it was
\* killed, or saving the iCal file failed
Interrupted ==
    /\ pc = "done"
    /\ args.command = "generate"
    /\ args.start_year <= args.end_year
    /\ YEAR > args.end_year
    /\ \/ exit_code = 137
       \/ /\ exit_code = 1
          /\ log[Len(log)].what = "Failed to save iCal file"

\* C21: if a generate_calendar run is interrupted (crash, or fatal
\* output-write failure) after the events have been computed and before the
\* final artifact write, the stored output artifact and the stored cache are
\* exactly as they were before the run.
C21_InterruptedRunLeavesStores ==
    Interrupted =>
        /\ output_file = started.output_file
        /\ cache_file = started.cache_file

\* the run for 2024..2025 found the output and the cache the run for 2025 had
\* written; saving the iCal file failed, and the cache file now holds Easter
\* 2024 as well
C21_Witness ==
    /\ Interrupted
    /\ exit_code = 1
    /\ args.start_year = 2024 /\ args.end_year = 2025
    /\ started.output_file.exists
    /\ started.cache_file.kind = "valid"
    /\ DOMAIN started.cache_file.data = {<<"easter", 2025>>}
    /\ output_file = started.output_file
    /\ DOMAIN cache_file.data = {<<"easter", 2024>>, <<"easter", 2025>>}

\* C22: when the year range is invalid the run aborts before any computation:
\* the holiday-definition store is not read, no date is computed, and neither
\* the cache store nor the output artifact is created or modified.
C22_InvalidRangeAbortsFirst ==
    (runs >= 1 /\ args.command = "generate"
        /\ ~(1900 <= args.start_year /\ args.start_year <= args.end_year
             /\ args.end_year <= 2100)) =>
        /\ pc = "done"
        /\ exit_code = 1
        /\ log = <<[level |-> "ERROR", what |-> "Invalid year range",
                    name |-> "", date |-> <<>>]>>
        /\ io = <<>>
        /\ holiday_config = NoHolidaysFile
        /\ cache = EmptyCache
        /\ holidays = <<>> /\ seen = {} /\ cal = <<>>
        /\ holidays_file = started.holidays_file
        /\ cache_file = started.cache_file
        /\ output_file = started.output_file

\* the run for 2101 is rejected after a run that had written the cache and
\* the output: both files are as that run left them
C22_Witness ==
    /\ RangeRejected
    /\ args.start_year = 2101 /\ args.end_year = 2101
    /\ previous.kind = "generate" /\ previous.exit_code = 0
    /\ started.cache_file.kind = "valid"
    /\ started.output_file.exists
    /\ started.output_file.events # <<>>
    /\ cache_file = started.cache_file
    /\ output_file = started.output_file
    /\ io = <<>>

-----------------------------------------------------------------------------
(* Claims about a holiday on a day some years lack (checked under SpecLeap) *)

\* the running generate command has ended, and not on a failure to open the
\* output file
GenerateEnded ==
    /\ pc = "done"
    /\ args.command = "generate"
    /\ log = <<>> \/ log[Len(log)].what # "Failed to save iCal file"

\* the store without the definitions named name
StoreWithout(config, name) ==
    [approved_holidays |-> config.approved_holidays,
     manual_holidays |-> OthersOf(config.manual_holidays, name),
     calculated_holidays |-> OthersOf(config.calculated_holidays, name),
     federal_holidays |-> OthersOf(config.federal_holidays, name)]

\* the events of the running command whose name is not name, in order
RECURSIVE EventsNotNamed(_, _)
EventsNotNamed(events, name) ==
    IF events = <<>> THEN <<>>
    ELSE (IF Head(events).summary = name THEN <<>> ELSE <<Head(events)>>)
         \o EventsNotNamed(Tail(events), name)

\* the store the command found defines and approves Leap Day
LeapDayDefined ==
    LET config == started.holidays_file
    IN  /\ InSeq("Leap Day", config.approved_holidays)
        /\ \/ HasName(config.manual_holidays, "Leap Day")
           \/ HasName(config.federal_holidays, "Leap Day")

\* C23: a holiday whose day does not exist in some year of the range (a
\* February 29 holiday in a non-leap year) is skipped for that year only: the
\* run completes with status 0, emits the holiday in the years that have the
\* day, and emits every other holiday of every year as it would without it.
C23_SkippedForThatYearOnly ==
    (GenerateEnded /\ LeapDayDefined) =>
        /\ exit_code = 0
        /\ EventsNotNamed(cal, "Leap Day")
              = FreshEvents(StoreWithout(started.holidays_file, "Leap Day"),
                            args.start_year, args.end_year)
        /\ \A y \in args.start_year..args.end_year :
              (\E k \in 1..Len(cal) :
                  /\ cal[k].summary = "Leap Day"
                  /\ cal[k].dtstart = [y |-> y, m |-> 2, d |-> 29])
              <=> (y % 4 = 0 /\ (y % 100 # 0 \/ y % 400 = 0))
        /\ \A k \in 1..Len(cal) :
              cal[k].summary = "Leap Day" => cal[k].dtstart.m = 2 /\ cal[k].dtstart.d = 29

\* add-holiday accepted Leap Day on February 29; the run for 2024..2025 after
\* it ends with status 0, emits Leap Day on 2024-02-29 and Festivus of 2025,
\* and records the error for 2025-02-29
C23_Witness ==
    /\ GenerateEnded /\ LeapDayDefined
    /\ previous.kind = "add-holiday"
    /\ previous.args.month = 2 /\ previous.args.day = 29
    /\ previous.exit_code = 0
    /\ args.start_year = 2024 /\ args.end_year = 2025
    /\ exit_code = 0
    /\ \E k \in 1..Len(cal) :
          /\ cal[k].summary = "Leap Day"
          /\ cal[k].dtstart = [y |-> 2024, m |-> 2, d |-> 29]
    /\ \A k \in 1..Len(cal) : cal[k].summary = "Leap Day" => cal[k].dtstart.y = 2024
    /\ \E k \in 1..Len(cal) :
          /\ cal[k].summary = "Festivus"
          /\ cal[k].dtstart = [y |-> 2025, m |-> 12, d |-> 23]
    /\ InSeq([level |-> "ERROR", what |-> "Invalid date format",
              name |-> "Leap Day",
              date |-> <<"2", "0", "2", "5", "-", "0", "2", "-", "2", "9">>], log)

-----------------------------------------------------------------------------
(* Claims about sequences of store commands (checked under SpecUnique, and *)
(* C26 under SpecStore)                                                    *)

NamesOf(defs) == [i \in 1..Len(defs) |-> defs[i].name]

NoRepeat(sq) == \A i, j \in 1..Len(sq) : sq[i] = sq[j] => i = j

\* every name is defined at most once across the three groups and approved
\* at most once
UniqueNames(config) ==
    /\ NoRepeat(NamesOf(config.manual_holidays)
                \o NamesOf(config.calculated_holidays)
                \o NamesOf(config.federal_holidays))
    /\ NoRepeat(config.approved_holidays)

\* C25: from a store in which every name occurs at most once across
\* manual_holidays, calculated_holidays and federal_holidays and at most once
\* in approved_holidays, every sequence of add_holiday and remove_holiday
\* commands leaves a store with the same uniqueness; add_holiday of a name
\* present in any of the three groups is rejected with a nonzero exit and an
\* unchanged store, and approved_holidays never gains a second copy of a name.
C25_NamesStayUnique ==
    /\ UniqueNames(holidays_file)
    /\ (pc = "done" /\ args.command = "add-holiday" /\ ~NameIsNew) =>
          /\ exit_code # 0
          /\ holidays_file = started.holidays_file
          /\ ~InSeq("write holidays", io)
    /\ (pc = "done" /\ args.command = "add-holiday"
          /\ InSeq(args.name, started.holidays_file.approved_holidays)) =>
          holidays_file.approved_holidays = started.holidays_file.approved_holidays

\* the first command removed Christmas Day, the second added it again, and
\* the third, which adds it once more, is rejected
C25_Witness ==
    /\ runs = 3 /\ pc = "done"
    /\ args.command = "add-holiday" /\ args.name = "Christmas Day"
    /\ args.month = 2 /\ args.day = 29
    /\ exit_code = 1
    /\ holidays_file = started.holidays_file
    /\ previous.kind = "add-holiday" /\ previous.args.name = "Christmas Day"
    /\ previous.exit_code = 0
    /\ previous.started.holidays_file \notin RunFiles
    /\ ~InSeq("Christmas Day", previous.started.holidays_file.approved_holidays)
    /\ UniqueNames(holidays_file)

\* the name of the running command was in none of the four groups of the
\* store the command before it found
NameWasNowhere ==
    LET before == previous.started.holidays_file
    IN  /\ ~InSeq(args.name, NamesOf(before.manual_holidays))
        /\ ~InSeq(args.name, NamesOf(before.calculated_holidays))
        /\ ~InSeq(args.name, NamesOf(before.federal_holidays))
        /\ ~InSeq(args.name, before.approved_holidays)

\* remove-holiday has run right after a successful add-holiday of its name
RemovedAfterAdd ==
    /\ pc = "done"
    /\ args.command = "remove-holiday"
    /\ previous.kind = "add-holiday"
    /\ previous.exit_code = 0
    /\ previous.args.name = args.name

\* C26: for a name that occurs in none of the four groups of the store, a
\* successful add_holiday(name, month, day) followed by remove_holiday(name)
\* restores the store to exactly its content before the add.
C26_AddThenRemoveRestores ==
    (RemovedAfterAdd /\ NameWasNowhere) =>
        /\ exit_code = 0
        /\ holidays_file = previous.started.holidays_file

\* Groundhog Day was added on February 29 to the store that holds Festivus
\* twice, and removed: the store is the one before the add, repeated entries
\* included
C26_Witness ==
    /\ RemovedAfterAdd /\ NameWasNowhere
    /\ args.name = "Groundhog Day"
    /\ previous.args.month = 2 /\ previous.args.day = 29
    /\ HasName(started.holidays_file.manual_holidays, "Groundhog Day")
    /\ InSeq("Groundhog Day", started.holidays_file.approved_holidays)
    /\ holidays_file = previous.started.holidays_file
    /\ Len(holidays_file.manual_holidays) = 4
    /\ holidays_file.federal_holidays = FederalStandard

====
